---- MODULE Spec2Model ----
(***************************************************************************)
(* Verification model of codebase-genius: the entity extraction scheduler  *)
(* and the module-name derivation (backend/utils/ts_analyze.py) and the    *)
(* Mermaid diagram renderers (backend/utils/diagram_gen.py).               *)
(*                                                                         *)
(* Text is modelled as a sequence of one-character strings, so that the    *)
(* character-level code (sanitizing, joining, formatting) is computed as   *)
(* the code computes it.                                                   *)
(***************************************************************************)
EXTENDS Integers, Sequences, FiniteSets, TLC

VARIABLES
    \* ---- diagram_gen._id_for driven on its own (SpecId)
    cache,          \* the Dict[str, str] handed to _id_for: label -> id
    lastLabel,      \* the label of the last _id_for call
    lastId,         \* the id that call returned
    firstId,        \* history: the id each label was given when first requested
    \* ---- one diagram render (SpecRender)
    entities,       \* the "files" list handed to the renderers
    max_edges,      \* the max_edges argument
    filter_tests,   \* the filter_tests argument
    kind,           \* which renderer ran last: "none", "call", "class", "module"
    lines,          \* the renderer's local list `lines` when it returned
    edges,          \* the renderer's local set `edges` when it returned
    id_cache,       \* the renderer's local dict `id_cache` when it returned
    out,            \* the text the renderer returned
    func_module,    \* _build_maps' first result, as of the last call-graph render
    class_module,   \* _build_maps' second result
    prevSame,       \* history: the text of the render before the last one, when that
                    \* was a render of the same kind (NoText otherwise)
    \* ---- extract_entities (SpecExtract)
    file_tree,      \* the descriptor list handed to extract_entities
    disk,           \* per path: "ok" (readable), "raises" (the extractor fails on it),
                    \* "missing" (no such file)
    pc,             \* "idle", "par" (collecting futures), "returned", "raised"
    use_parallel,   \* the local use_parallel of the last call
    workers_arg,    \* the max_workers argument of the last parallel call (0 is None)
    cpu_count,      \* multiprocessing.cpu_count() of the machine of that call
    max_workers,    \* the local max_workers handed to the pool (0 when no pool)
    code_files,     \* the local list code_files
    finished,       \* the indices (into code_files) of the futures collected so far
    results,        \* the local list results
    errors,         \* the local list errors
    ret,            \* the aggregate the last call returned
    \* ---- _module_name_for driven on its own (SpecModuleName)
    rel_path,       \* the text of the relative path handed to Path(...)
    language,       \* the language argument
    module,         \* the string the last call returned (NoText before the first call)
    prevModule,     \* history: the string the call before the last one returned
    \* ---- fs_map.scan_repo_tree (SpecScan)
    root_files,     \* the files under the root: each a sequence of names, directories then file
    listing,        \* the order in which os.walk lists names: a sequence of all names
    exclude_dirs,   \* the exclude_dirs argument (<<>> is None)
    include_exts,   \* the include_exts argument (<<>> is None)
    max_files,      \* the max_files argument (0 is None)
    scan_out,       \* the list scan_repo_tree returned
    scanned,        \* whether scan_repo_tree has returned
    \* ---- the line heuristics (ts_analyze._naive_extract)
    src_lines,      \* the lines of the source file
    src_language,   \* the language of its descriptor
    naive,          \* the entity record made of the file, NoRecord before
    call_graph,     \* the lines of the call graph drawn from that record, <<>> before
    \* ---- cache.CacheManager (SpecCache)
    cache_files,    \* per key: the cache file of the key
    clock,          \* time.time(), in seconds
    last_good,      \* history: per key the data and the time of the last set that wrote its file, NoSet after an invalidate of the key or a clear_all
    got,            \* the key and the result of the get that ran last, NoGet after any other step
    \* ---- repo.clone_or_open_repo (SpecRepo)
    target_dir,     \* the cache target directory of the remote URL: absent, partial, cloned
    git_cli,        \* shutil.which('git') finds git
    git_python,     \* GitPython could be imported (Repo is not None)
    repo_call,      \* the last call: its url kind, status, error and the target before it
    repo_calls      \* the number of calls so far

idVars      == <<cache, lastLabel, lastId, firstId>>
renderVars  == <<entities, max_edges, filter_tests, kind, lines, edges, id_cache,
                 out, func_module, class_module, prevSame>>
extractVars == <<file_tree, disk, pc, use_parallel, workers_arg, cpu_count,
                 max_workers, code_files, finished, results, errors, ret>>
nameVars    == <<rel_path, language, module, prevModule>>
scanVars == <<root_files, listing, exclude_dirs, include_exts, max_files, scan_out, scanned>>
heuristicVars == <<src_lines, src_language, naive, call_graph>>
cacheVars == <<cache_files, clock, last_good, got>>
repoVars == <<target_dir, git_cli, git_python, repo_call, repo_calls>>
vars        == <<idVars, renderVars, extractVars, nameVars, scanVars, heuristicVars, cacheVars, repoVars>>

\* what the actions of one part leave unchanged
notIdVars == <<renderVars, extractVars, nameVars, scanVars, heuristicVars, cacheVars, repoVars>>
notRenderVars == <<idVars, extractVars, nameVars, scanVars, heuristicVars, cacheVars, repoVars>>
notExtractVars == <<idVars, renderVars, nameVars, scanVars, heuristicVars, cacheVars, repoVars>>
notNameVars == <<idVars, renderVars, extractVars, scanVars, heuristicVars, cacheVars, repoVars>>
notScanVars == <<idVars, renderVars, extractVars, nameVars, heuristicVars, cacheVars, repoVars>>
notHeuristicVars == <<idVars, renderVars, extractVars, nameVars, scanVars, cacheVars, repoVars>>
notCacheVars == <<idVars, renderVars, extractVars, nameVars, scanVars, heuristicVars, repoVars>>
notRepoVars == <<idVars, renderVars, extractVars, nameVars, scanVars, heuristicVars, cacheVars>>

----------------------------------------------------------------------------
(* Characters and text                                                     *)

UpperCase == <<"A","B","C","D","E","F","G","H","I","J","K","L","M",
               "N","O","P","Q","R","S","T","U","V","W","X","Y","Z">>
LowerCase == <<"a","b","c","d","e","f","g","h","i","j","k","l","m",
               "n","o","p","q","r","s","t","u","v","w","x","y","z">>
DigitChars == <<"0","1","2","3","4","5","6","7","8","9">>

Range(s) == {s[i] : i \in DOMAIN s}

\* str.isdigit / str.isalnum on one character
IsDigit(ch) == ch \in Range(DigitChars)
IsAlnum(ch) == ch \in Range(UpperCase) \cup Range(LowerCase) \cup Range(DigitChars)

\* str.lower on one character, then on a text
LowerChar(ch) ==
    IF ch \in Range(UpperCase)
    THEN LowerCase[CHOOSE i \in DOMAIN UpperCase : UpperCase[i] = ch]
    ELSE ch
Lower(s) == [i \in DOMAIN s |-> LowerChar(s[i])]

\* `sub in s` for texts
Contains(s, sub) ==
    \E i \in 0..(Len(s) - Len(sub)) : SubSeq(s, i + 1, i + Len(sub)) = sub

\* str(i) for a natural number
RECURSIVE Dec(_)
Dec(i) == IF i < 10 THEN <<DigitChars[i + 1]>>
          ELSE Dec(i \div 10) \o <<DigitChars[(i % 10) + 1]>>

\* str.strip("_")
RECURSIVE LStrip(_)
LStrip(s) == IF s # <<>> /\ Head(s) = "_" THEN LStrip(Tail(s)) ELSE s
RECURSIVE RStrip(_)
RStrip(s) == IF s # <<>> /\ s[Len(s)] = "_" THEN RStrip(SubSeq(s, 1, Len(s) - 1)) ELSE s
Strip(s) == RStrip(LStrip(s))

\* "\n".join(ls)
RECURSIVE Join(_)
Join(ls) == IF ls = <<>> THEN <<>>
            ELSE IF Len(ls) = 1 THEN ls[1]
            ELSE ls[1] \o <<"\n">> \o Join(Tail(ls))

----------------------------------------------------------------------------
(* diagram_gen.py: node ids                                                *)

_sanitize_id(label) ==
    LET mapped == [i \in DOMAIN label |-> IF IsAlnum(label[i]) THEN label[i] ELSE "_"]
        stripped == Strip(mapped)
        ident == IF stripped = <<>> THEN <<"n">> ELSE stripped
    IN  IF IsDigit(ident[1]) THEN <<"n", "_">> \o ident ELSE ident

Values(c) == {c[l] : l \in DOMAIN c}

\* the while loop of _id_for: the first base_i, i >= 2, that no label has yet
RECURSIVE FirstFreeSuffix(_, _, _)
FirstFreeSuffix(base, c, i) ==
    IF (base \o <<"_">> \o Dec(i)) \in Values(c)
    THEN FirstFreeSuffix(base, c, i + 1)
    ELSE base \o <<"_">> \o Dec(i)

\* _id_for (mutant): the sanitized id is used without the collision check
_id_for_nocheck(label, c) ==
    IF label \in DOMAIN c THEN [id |-> c[label], cache |-> c]
    ELSE [id |-> _sanitize_id(label), cache |-> c @@ (label :> _sanitize_id(label))]

\* _id_for returns the id and leaves the cache updated: both are in the result
_id_for(label, c) ==
    IF label \in DOMAIN c THEN [id |-> c[label], cache |-> c]
    ELSE LET ident == _sanitize_id(label)
             final == IF ident \in Values(c) THEN FirstFreeSuffix(ident, c, 2) ELSE ident
         IN  [id |-> final, cache |-> c @@ (label :> final)]

EmptyDict == [k \in {} |-> <<>>]

----------------------------------------------------------------------------
(* SpecId: _id_for called with any sequence of labels on one cache         *)

MaxCacheSize == 3

\* Labels that collide after sanitizing, among them the ids a suffix produces:
\* "a", "a_", "_a", "a." all sanitize to a; "a_2", "a.2" to a_2; "2" to n_2;
\* "", "_" and "n" to n.
Labels == {
    <<"a">>, <<"a", "_">>, <<"_", "a">>, <<"a", ".">>,
    <<"a", "_", "2">>, <<"a", ".", "2">>, <<"a", "_", "3">>,
    <<"a", "_", "2", "_", "2">>,
    <<"2">>, <<"n", "_", "2">>,
    <<>>, <<"_">>, <<"n">> }

NoText == <<"?">>

IdQuiet ==
    /\ cache = EmptyDict /\ lastLabel = NoText /\ lastId = NoText /\ firstId = EmptyDict

InitId == IdQuiet

\* one call _id_for(label, cache)
Request(label) ==
    /\ label \in DOMAIN cache \/ Cardinality(DOMAIN cache) < MaxCacheSize
    /\ LET r == _id_for(label, cache)
       IN  /\ cache' = r.cache
           /\ lastId' = r.id
           /\ lastLabel' = label
           /\ firstId' = IF label \in DOMAIN firstId THEN firstId
                         ELSE firstId @@ (label :> r.id)
    /\ UNCHANGED notIdVars

NextId == \E label \in Labels : Request(label)

----------------------------------------------------------------------------
(* diagram_gen.py: label maps                                              *)

\* dict.setdefault (mutant): a plain assignment, so that the last writer wins
SetDefault_overwrite(m, k, v) == [x \in DOMAIN m \cup {k} |-> IF x = k THEN v ELSE m[x]]

\* dict.setdefault(k, v)
SetDefault(m, k, v) == IF k \in DOMAIN m THEN m ELSE m @@ (k :> v)

\* for name in names: m.setdefault(name, mod)
RECURSIVE SetDefaultAll(_, _, _)
SetDefaultAll(m, names, mod) ==
    IF names = <<>> THEN m
    ELSE SetDefaultAll(SetDefault(m, Head(names), mod), Tail(names), mod)

\* the loop of _build_maps over entities["files"]
RECURSIVE BuildMapsLoop(_, _, _)
BuildMapsLoop(files, fm, cm) ==
    IF files = <<>> THEN [func_module |-> fm, class_module |-> cm]
    ELSE LET f == Head(files)
         IN  BuildMapsLoop(Tail(files),
                           SetDefaultAll(fm, f.functions, f.module),
                           SetDefaultAll(cm, f.classes, f.module))

_build_maps(files) == BuildMapsLoop(files, EmptyDict, EmptyDict)

\* _label (mutant): the module is never prefixed
_label_bare(mod, name) == name

_label(mod, name) == IF mod # <<>> THEN mod \o <<".">> \o name ELSE name

\* the owner of a callee (mutant): the class map is asked first
CalleeModule_classfirst(fm, cm, callee) ==
    IF callee \in DOMAIN cm /\ cm[callee] # <<>> THEN cm[callee]
    ELSE IF callee \in DOMAIN fm /\ fm[callee] # <<>> THEN fm[callee]
    ELSE <<>>

\* func_module.get(callee) or class_module.get(callee) or ""
\* (a missing key gives None and an empty module string is falsy as well)
CalleeModule(fm, cm, callee) ==
    IF callee \in DOMAIN fm /\ fm[callee] # <<>> THEN fm[callee]
    ELSE IF callee \in DOMAIN cm /\ cm[callee] # <<>> THEN cm[callee]
    ELSE <<>>

\* is_test_label (mutant): the label is not lowercased before the search
is_test_label_cased(label) ==
    Contains(label, <<"t","e","s","t">>) \/ Contains(label, <<"t","e","s","t","s">>)

\* the nested is_test_label of each renderer
is_test_label(label) ==
    LET l == Lower(label)
    IN  Contains(l, <<"t","e","s","t">>) \/ Contains(l, <<"t","e","s","t","s">>)

----------------------------------------------------------------------------
(* diagram_gen.py: the three renderers.  A renderer's locals are the       *)
(* record st = [lines, edges, id_cache, returned]; returned is set by the  *)
(* return inside the loop.                                                 *)

\* f"  {sid}[\"{src}\"] --> {did}[\"{dst}\"]"
ArrowEdge(sid, src, did, dst) ==
    <<" ", " ">> \o sid \o <<"[", "\"">> \o src \o <<"\"", "]">>
    \o <<" ", "-", "-", ">", " ">>
    \o did \o <<"[", "\"">> \o dst \o <<"\"", "]">>

\* f"  {sid}[\"{sub}\"] -->|extends| {bid}[\"{base}\"]"
ExtendsEdge(sid, sub, bid, base) ==
    <<" ", " ">> \o sid \o <<"[", "\"">> \o sub \o <<"\"", "]">>
    \o <<" ", "-", "-", ">", "|", "e", "x", "t", "e", "n", "d", "s", "|", " ">>
    \o bid \o <<"[", "\"">> \o base \o <<"\"", "]">>

\* the cap test (mutant): > instead of >=
CapReached_off_by_one(n, cap) == n > cap

\* len(edges) >= max_edges
CapReached(n, cap) == n >= cap

\* the edge test (mutant): the line is appended whether or not it is in edges
Emit_nodedup(st, edge, cap) ==
    [st EXCEPT !.lines = Append(@, edge),
               !.edges = @ \cup {edge},
               !.returned = CapReached(Cardinality(st.edges \cup {edge}), cap)]

\* if edge not in edges: lines.append(edge); edges.add(edge);
\*                       if len(edges) >= max_edges: return
Emit(st, edge, cap) ==
    IF edge \in st.edges THEN st
    ELSE [st EXCEPT !.lines = Append(@, edge),
                    !.edges = @ \cup {edge},
                    !.returned = CapReached(Cardinality(st.edges \cup {edge}), cap)]

\* ---- make_call_graph_mermaid

\* the body of the calls loop (mutant): a call without a caller is drawn too
CallStep_anycaller(st, mod, c, fm, cm, cap, flt) ==
    IF c.callee = <<>> THEN st
    ELSE LET src == _label(mod, c.caller)
             dst == _label(CalleeModule(fm, cm, c.callee), c.callee)
         IN  IF flt /\ (is_test_label(src) \/ is_test_label(dst)) THEN st
             ELSE LET s == _id_for(src, st.id_cache)
                      d == _id_for(dst, s.cache)
                  IN  Emit([st EXCEPT !.id_cache = d.cache],
                           ArrowEdge(s.id, src, d.id, dst), cap)

\* the body of the inner loop for one call c of a file with module mod
CallStep(st, mod, c, fm, cm, cap, flt) ==
    IF c.caller = <<>> \/ c.callee = <<>> THEN st
    ELSE LET src == _label(mod, c.caller)
             dst == _label(CalleeModule(fm, cm, c.callee), c.callee)
         IN  IF flt /\ (is_test_label(src) \/ is_test_label(dst)) THEN st
             ELSE LET s == _id_for(src, st.id_cache)
                      d == _id_for(dst, s.cache)
                  IN  Emit([st EXCEPT !.id_cache = d.cache],
                           ArrowEdge(s.id, src, d.id, dst), cap)

RECURSIVE CallsLoop(_, _, _, _, _, _, _)
CallsLoop(st, mod, cs, fm, cm, cap, flt) ==
    IF cs = <<>> \/ st.returned THEN st
    ELSE CallsLoop(CallStep(st, mod, Head(cs), fm, cm, cap, flt),
                   mod, Tail(cs), fm, cm, cap, flt)

RECURSIVE CallFilesLoop(_, _, _, _, _, _)
CallFilesLoop(st, files, fm, cm, cap, flt) ==
    IF files = <<>> \/ st.returned THEN st
    ELSE CallFilesLoop(CallsLoop(st, Head(files).module, Head(files).calls,
                                 fm, cm, cap, flt),
                       Tail(files), fm, cm, cap, flt)

\* ---- make_class_hierarchy_mermaid

\* the sub endpoint (mutant): qualified with the record's module
SubLabel_qualified(mod, sub) == _label(mod, sub)

\* the sub endpoint of an inheritance edge is inh["class"] as it stands
SubLabel(mod, sub) == sub

InheritStep(st, mod, inh, cap, flt) ==
    LET sub == SubLabel(mod, inh.class)
        base == inh.base
    IN  IF sub = <<>> \/ base = <<>> THEN st
        ELSE IF flt /\ (is_test_label(sub) \/ is_test_label(base)) THEN st
        ELSE LET s == _id_for(sub, st.id_cache)
                 b == _id_for(base, s.cache)
             IN  Emit([st EXCEPT !.id_cache = b.cache],
                      ExtendsEdge(s.id, sub, b.id, base), cap)

RECURSIVE InheritsLoop(_, _, _, _, _)
InheritsLoop(st, mod, is, cap, flt) ==
    IF is = <<>> \/ st.returned THEN st
    ELSE InheritsLoop(InheritStep(st, mod, Head(is), cap, flt), mod, Tail(is), cap, flt)

RECURSIVE InheritFilesLoop(_, _, _, _)
InheritFilesLoop(st, files, cap, flt) ==
    IF files = <<>> \/ st.returned THEN st
    ELSE InheritFilesLoop(InheritsLoop(st, Head(files).module, Head(files).inherits,
                                       cap, flt),
                          Tail(files), cap, flt)

\* ---- make_module_graph_mermaid

ImportStep(st, mod_src, imp, cap, flt) ==
    LET tgt == imp.module
    IN  IF tgt = <<>> THEN st
        ELSE IF flt /\ (is_test_label(mod_src) \/ is_test_label(tgt)) THEN st
        ELSE LET s == _id_for(mod_src, st.id_cache)
                 d == _id_for(tgt, s.cache)
             IN  Emit([st EXCEPT !.id_cache = d.cache],
                      ArrowEdge(s.id, mod_src, d.id, tgt), cap)

RECURSIVE ImportsLoop(_, _, _, _, _)
ImportsLoop(st, mod_src, imps, cap, flt) ==
    IF imps = <<>> \/ st.returned THEN st
    ELSE ImportsLoop(ImportStep(st, mod_src, Head(imps), cap, flt),
                     mod_src, Tail(imps), cap, flt)

RECURSIVE ImportFilesLoop(_, _, _, _)
ImportFilesLoop(st, files, cap, flt) ==
    IF files = <<>> \/ st.returned THEN st
    ELSE IF Head(files).module = <<>> THEN ImportFilesLoop(st, Tail(files), cap, flt)
    ELSE ImportFilesLoop(ImportsLoop(st, Head(files).module, Head(files).imports,
                                     cap, flt),
                         Tail(files), cap, flt)

\* the header of the class hierarchy (mutant): the one of the other two diagrams
HeaderTB_LR == <<"f","l","o","w","c","h","a","r","t"," ","L","R">>

\* the header lines
HeaderLR == <<"f","l","o","w","c","h","a","r","t"," ","L","R">>
HeaderTB == <<"f","l","o","w","c","h","a","r","t"," ","T","B">>

\* edges = set() (mutant): the set of an earlier render is kept
NewEdges_stale == edges

\* edges = set()
NewEdges == {}

\* id_cache = {}
NewIdCache == EmptyDict

\* the locals of a renderer before its loop
Locals(header) ==
    [lines |-> <<header>>, edges |-> NewEdges, id_cache |-> NewIdCache, returned |-> FALSE]

make_call_graph_mermaid(files, cap, flt) ==
    LET maps == _build_maps(files)
    IN  CallFilesLoop(Locals(HeaderLR), files, maps.func_module, maps.class_module, cap, flt)

make_class_hierarchy_mermaid(files, cap, flt) ==
    InheritFilesLoop(Locals(HeaderTB), files, cap, flt)

make_module_graph_mermaid(files, cap, flt) ==
    ImportFilesLoop(Locals(HeaderLR), files, cap, flt)

----------------------------------------------------------------------------
(* SpecRender: the renderers applied to bounded entity lists               *)

MaxFiles == 2
MaxCap == 2
DefaultMaxEdges == 400

foo   == <<"f","o","o">>
bar   == <<"b","a","r">>
a_foo == <<"a","_","f","o","o">>
TestF == <<"T","e","s","t">>
Child == <<"C","h","i","l","d">>
Base  == <<"B","a","s","e">>
modA  == <<"a">>
modB  == <<"b">>
tests == <<"t","e","s","t","s">>

Call(caller, callee) == [caller |-> caller, callee |-> callee]
Inh(sub, base)       == [class |-> sub, base |-> base]
Imp(mod)             == [module |-> mod]

Rec(mod, fs, cs, calls_, inhs, imps) ==
    [module |-> mod, functions |-> fs, classes |-> cs, calls |-> calls_,
     inherits |-> inhs, imports |-> imps]

\* the entity records a file list is drawn from
FilePool == {
    \* one edge of each kind; the callee and the base are declared elsewhere or nowhere
    Rec(modA, <<foo>>, <<Child>>,
        <<Call(foo, bar)>>, <<Inh(Child, Base)>>, <<Imp(modB)>>),
    \* declarations only
    Rec(modB, <<bar>>, <<Base>>, <<>>, <<>>, <<>>),
    \* two distinct edges of each kind
    Rec(modA, <<foo, bar>>, <<>>,
        <<Call(foo, bar), Call(foo, foo)>>,
        <<Inh(Child, Base), Inh(Child, bar)>>,
        <<Imp(modB), Imp(modA)>>),
    \* the same edge twice; bar declared as a class
    Rec(modB, <<>>, <<bar>>,
        <<Call(foo, bar), Call(foo, bar)>>,
        <<Inh(Child, Base), Inh(Child, Base)>>,
        <<Imp(modA), Imp(modA)>>),
    \* edges with an empty end
    Rec(modA, <<foo>>, <<>>,
        <<Call(<<>>, bar), Call(foo, <<>>)>>,
        <<Inh(<<>>, Base), Inh(Child, <<>>)>>,
        <<Imp(<<>>), Imp(tests)>>),
    \* declarations and edges in a record whose module string is empty
    Rec(<<>>, <<foo, bar>>, <<Child, Base>>,
        <<Call(foo, bar)>>, <<Inh(Child, Base)>>, <<Imp(modB)>>),
    \* a test module: "test" in the module string and in names
    Rec(tests, <<TestF, bar>>, <<Child>>,
        <<Call(TestF, bar), Call(foo, bar)>>,
        <<Inh(TestF, Base), Inh(Child, Base)>>,
        <<Imp(tests), Imp(modA)>>),
    \* labels whose sanitized ids collide (a.foo, a_foo); bar a function and a class
    Rec(modA, <<bar>>, <<bar>>,
        <<Call(foo, foo), Call(foo, a_foo)>>,
        <<Inh(Base, Child)>>,
        <<Imp(modA)>>) }

FileLists == UNION {[1..n -> FilePool] : n \in 0..MaxFiles}

RenderQuiet ==
    /\ entities = <<>> /\ max_edges = 0 /\ filter_tests = FALSE /\ kind = "none"
    /\ lines = <<>> /\ edges = {} /\ id_cache = EmptyDict /\ out = NoText
    /\ func_module = EmptyDict /\ class_module = EmptyDict /\ prevSame = NoText

InitRender ==
    /\ entities \in FileLists
    /\ max_edges \in (0..MaxCap) \cup {DefaultMaxEdges}
    /\ filter_tests \in BOOLEAN
    /\ kind = "none"
    /\ lines = <<>> /\ edges = {} /\ id_cache = EmptyDict /\ out = NoText
    /\ func_module = EmptyDict /\ class_module = EmptyDict /\ prevSame = NoText

\* what every render leaves behind: the locals at the return and the text returned
Returned(k, st) ==
    /\ kind' = k
    /\ lines' = st.lines
    /\ edges' = st.edges
    /\ id_cache' = st.id_cache
    /\ out' = Join(st.lines)
    /\ prevSame' = IF kind = k THEN out ELSE NoText
    /\ UNCHANGED <<entities, max_edges, filter_tests>>
    /\ UNCHANGED notRenderVars

RenderCall ==
    /\ Returned("call", make_call_graph_mermaid(entities, max_edges, filter_tests))
    /\ LET maps == _build_maps(entities)
       IN  func_module' = maps.func_module /\ class_module' = maps.class_module

RenderClass ==
    /\ Returned("class", make_class_hierarchy_mermaid(entities, max_edges, filter_tests))
    /\ UNCHANGED <<func_module, class_module>>

RenderModule ==
    /\ Returned("module", make_module_graph_mermaid(entities, max_edges, filter_tests))
    /\ UNCHANGED <<func_module, class_module>>

NextRender == RenderCall \/ RenderClass \/ RenderModule

----------------------------------------------------------------------------
(* ts_analyze.py: extract_entities                                         *)
(*                                                                         *)
(* A descriptor is [type, path]; path NoPath stands for a descriptor       *)
(* without a "path" key.  A path is a number, the file's place in the      *)
(* tree.  A file name in a record or an error is [abs, rel]: abs tells     *)
(* whether it is str((root / rel).resolve()) or the relative path itself.  *)

NoPath == 0
Abs(p) == [abs |-> TRUE, rel |-> p]
Rel(p) == [abs |-> FALSE, rel |-> p]

ParallelThreshold == 10
WorkerCap == 8

Min(x, y) == IF x < y THEN x ELSE y

\* _process_single_file (mutant): a failed extraction is dropped like a non-code file
_process_single_file_drop(item) ==
    IF item.type # "CodeFile" THEN [tag |-> "none"]
    ELSE IF item.path = NoPath THEN [tag |-> "raise", error |-> "TypeError"]
    ELSE IF disk[item.path] = "missing"
         THEN [tag |-> "error",
               err |-> [file |-> Abs(item.path), error |-> "File does not exist"]]
    ELSE IF disk[item.path] = "raises" THEN [tag |-> "none"]
    ELSE [tag |-> "ok", data |-> [file |-> Abs(item.path)]]

\* _process_single_file: None, {"__ok__", "data"}, {"__error__"}, or an exception
\* raised before the try block (root / None is a TypeError)
_process_single_file(item) ==
    IF item.type # "CodeFile" THEN [tag |-> "none"]
    ELSE IF item.path = NoPath THEN [tag |-> "raise", error |-> "TypeError"]
    ELSE IF disk[item.path] = "missing"
         THEN [tag |-> "error",
               err |-> [file |-> Abs(item.path), error |-> "File does not exist"]]
    ELSE IF disk[item.path] = "raises"
         THEN [tag |-> "error",
               err |-> [file |-> Abs(item.path), error |-> "extraction failed"]]
    ELSE [tag |-> "ok", data |-> [file |-> Abs(item.path)]]

\* code_files = [item for item in file_tree if item.get("type") == "CodeFile"]
CodeFilesOf(tree) == SelectSeq(tree, LAMBDA item : item.type = "CodeFile")

\* the sequential loop (mutant): every item is put in front of its list
RECURSIVE SeqLoop_prepend(_, _, _)
SeqLoop_prepend(items, rs, es) ==
    IF items = <<>> THEN [status |-> "returned", files |-> rs, errors |-> es]
    ELSE LET o == _process_single_file(Head(items))
         IN  IF o.tag = "raise" THEN [status |-> "raised", files |-> rs, errors |-> es]
             ELSE IF o.tag = "ok" THEN SeqLoop_prepend(Tail(items), <<o.data>> \o rs, es)
             ELSE IF o.tag = "error" THEN SeqLoop_prepend(Tail(items), rs, <<o.err>> \o es)
             ELSE SeqLoop_prepend(Tail(items), rs, es)

\* the sequential loop (mutant): the first error entry ends the loop
RECURSIVE SeqLoop_abort(_, _, _)
SeqLoop_abort(items, rs, es) ==
    IF items = <<>> THEN [status |-> "returned", files |-> rs, errors |-> es]
    ELSE LET o == _process_single_file(Head(items))
         IN  IF o.tag = "raise" THEN [status |-> "raised", files |-> rs, errors |-> es]
             ELSE IF o.tag = "ok" THEN SeqLoop_abort(Tail(items), Append(rs, o.data), es)
             ELSE IF o.tag = "error"
                  THEN [status |-> "returned", files |-> rs, errors |-> Append(es, o.err)]
             ELSE SeqLoop_abort(Tail(items), rs, es)

\* the sequential loop: the lists it returns, or the exception that ends it
RECURSIVE SeqLoop(_, _, _)
SeqLoop(items, rs, es) ==
    IF items = <<>> THEN [status |-> "returned", files |-> rs, errors |-> es]
    ELSE LET o == _process_single_file(Head(items))
         IN  IF o.tag = "raise" THEN [status |-> "raised", files |-> rs, errors |-> es]
             ELSE IF o.tag = "ok" THEN SeqLoop(Tail(items), Append(rs, o.data), es)
             ELSE IF o.tag = "error" THEN SeqLoop(Tail(items), rs, Append(es, o.err))
             ELSE SeqLoop(Tail(items), rs, es)

\* the body of `for future in as_completed(futures)` for the future of item
CollectOne(item, agg) ==
    LET o == _process_single_file(item)
    IN  IF o.tag = "raise"
        THEN [agg EXCEPT !.errors = Append(@, [file |-> Rel(item.path), error |-> o.error])]
        ELSE IF o.tag = "ok" THEN [agg EXCEPT !.files = Append(@, o.data)]
        ELSE IF o.tag = "error" THEN [agg EXCEPT !.errors = Append(@, o.err)]
        ELSE agg

\* max_workers (mutant): the default is the cpu count without the cap
PoolSize_uncapped(arg, cpu) == IF arg = 0 THEN cpu ELSE arg

\* max_workers = min(multiprocessing.cpu_count(), 8) when None (0), else as given
PoolSize(arg, cpu) == IF arg = 0 THEN Min(cpu, WorkerCap) ELSE arg

\* The pool runs the submitted calls in submission order, at most max_workers at a
\* time: the calls started are the first |finished| + max_workers ones.
Started == 1..Min(Len(code_files), Cardinality(finished) + max_workers)
Running == Started \ finished

\* the call started first among those running
OldestRunning == CHOOSE i \in Running : \A j \in Running : i <= j

----------------------------------------------------------------------------
(* SpecExtract: extract_entities called on bounded file trees              *)

SmallTree == 3
MaxTree == 11

Kinds == {"ok", "raises", "missing", "doc", "nopath"}
WorkerArgs == {0, 1, 2}     \* the max_workers argument; 0 is None
CpuCounts == {1, 9}         \* multiprocessing.cpu_count()

\* The pools whose every completion order is followed; a larger pool is followed
\* in the order of submission only.
InterleavedPools == {1, 2}

\* Small trees hold any mix of files; trees long enough for the pool hold at most
\* one file that is not a readable code file.
KindVectors ==
    UNION {[1..n -> Kinds] : n \in 0..SmallTree}
    \cup UNION {{[i \in 1..n |-> IF i = p THEN k ELSE "ok"] : p \in 1..n, k \in Kinds} :
                n \in (ParallelThreshold + 1)..MaxTree}

TreeOf(kv) ==
    [i \in DOMAIN kv |->
        [type |-> IF kv[i] = "doc" THEN "Doc" ELSE "CodeFile",
         path |-> IF kv[i] = "nopath" THEN NoPath ELSE i]]

DiskOf(kv) ==
    [i \in DOMAIN kv |-> IF kv[i] \in {"raises", "missing"} THEN kv[i] ELSE "ok"]

NoAggregate == [none |-> TRUE]

ExtractQuiet ==
    /\ file_tree = <<>> /\ disk = <<>> /\ pc = "idle" /\ use_parallel = FALSE
    /\ workers_arg = 0 /\ cpu_count = 0
    /\ max_workers = 0 /\ code_files = <<>> /\ finished = {} /\ results = <<>>
    /\ errors = <<>> /\ ret = NoAggregate

InitExtract ==
    /\ \E kv \in KindVectors : file_tree = TreeOf(kv) /\ disk = DiskOf(kv)
    /\ pc = "idle" /\ use_parallel = FALSE /\ workers_arg = 0 /\ cpu_count = 0
    /\ max_workers = 0 /\ code_files = <<>>
    /\ finished = {} /\ results = <<>> /\ errors = <<>> /\ ret = NoAggregate

\* extract_entities, no code file in the tree: the early return
ExtractNoCode ==
    /\ pc # "par"
    /\ CodeFilesOf(file_tree) = <<>>
    /\ code_files' = <<>>
    /\ use_parallel' = FALSE /\ max_workers' = 0 /\ finished' = {}
    /\ workers_arg' = 0 /\ cpu_count' = 0
    /\ results' = <<>> /\ errors' = <<>>
    /\ ret' = [files |-> <<>>]
    /\ pc' = "returned"
    /\ UNCHANGED <<file_tree, disk>>
    /\ UNCHANGED notExtractVars

\* extract_entities, not use_parallel: the whole sequential loop and its return
ExtractSequential(par) ==
    /\ pc # "par"
    /\ CodeFilesOf(file_tree) # <<>>
    /\ ~(par /\ Len(CodeFilesOf(file_tree)) > ParallelThreshold)
    /\ LET r == SeqLoop(CodeFilesOf(file_tree), <<>>, <<>>)
       IN  /\ results' = r.files
           /\ errors' = r.errors
           /\ pc' = r.status
           /\ ret' = IF r.status = "returned"
                     THEN [files |-> r.files, errors |-> r.errors]
                     ELSE NoAggregate
    /\ code_files' = CodeFilesOf(file_tree)
    /\ use_parallel' = FALSE /\ max_workers' = 0 /\ finished' = {}
    /\ workers_arg' = 0 /\ cpu_count' = 0
    /\ UNCHANGED <<file_tree, disk>>
    /\ UNCHANGED notExtractVars

\* extract_entities, use_parallel: up to the submission of every future
ExtractParallel(arg, cpu) ==
    /\ pc # "par"
    /\ Len(CodeFilesOf(file_tree)) > ParallelThreshold
    /\ code_files' = CodeFilesOf(file_tree)
    /\ use_parallel' = TRUE
    /\ workers_arg' = arg
    /\ cpu_count' = cpu
    /\ max_workers' = PoolSize(arg, cpu)
    /\ finished' = {} /\ results' = <<>> /\ errors' = <<>>
    /\ ret' = NoAggregate
    /\ pc' = "par"
    /\ UNCHANGED <<file_tree, disk>>
    /\ UNCHANGED notExtractVars

\* as_completed yields the future of code_files[i]; after the last one the call returns
Collect(i) ==
    /\ pc = "par"
    /\ i \in Running
    /\ max_workers \in InterleavedPools \/ i = OldestRunning
    /\ LET agg == CollectOne(code_files[i], [files |-> results, errors |-> errors])
           done == finished \cup {i} = 1..Len(code_files)
       IN  /\ results' = agg.files
           /\ errors' = agg.errors
           /\ finished' = finished \cup {i}
           /\ pc' = IF done THEN "returned" ELSE "par"
           /\ ret' = IF done THEN agg ELSE NoAggregate
    /\ UNCHANGED <<file_tree, disk, use_parallel, workers_arg, cpu_count, max_workers,
                   code_files>>
    /\ UNCHANGED notExtractVars

NextExtract ==
    \/ ExtractNoCode
    \/ \E par \in BOOLEAN : ExtractSequential(par)
    \/ \E arg \in WorkerArgs, cpu \in CpuCounts : ExtractParallel(arg, cpu)
    \/ \E i \in 1..MaxTree : Collect(i)

----------------------------------------------------------------------------
(* ts_analyze.py: _module_name_for                                         *)

\* str.endswith(suf)
EndsWith(s, suf) ==
    Len(s) >= Len(suf) /\ SubSeq(s, Len(s) - Len(suf) + 1, Len(s)) = suf

\* name[:-n]
DropLast(s, n) == SubSeq(s, 1, Len(s) - n)

\* the components of a path text: the texts between its "/" characters
RECURSIVE Components(_, _)
Components(s, cur) ==
    IF s = <<>> THEN <<cur>>
    ELSE IF Head(s) = "/" THEN <<cur>> \o Components(Tail(s), <<>>)
    ELSE Components(Tail(s), Append(cur, Head(s)))

\* "/".join(parts)
RECURSIVE JoinSlash(_)
JoinSlash(parts) ==
    IF parts = <<>> THEN <<>>
    ELSE IF Len(parts) = 1 THEN parts[1]
    ELSE parts[1] \o <<"/">> \o JoinSlash(Tail(parts))

\* Path(text).as_posix() for a relative path: pathlib drops the empty and the "."
\* components, and the path without components is "."
as_posix(text) ==
    LET parts == SelectSeq(Components(text, <<>>), LAMBDA c : c # <<>> /\ c # <<".">>)
    IN  IF parts = <<>> THEN <<".">> ELSE JoinSlash(parts)

\* name.replace('/', '.')
ReplaceSlashes(name) == [i \in DOMAIN name |-> IF name[i] = "/" THEN "." ELSE name[i]]

PyExt == <<".", "p", "y">>

\* ('.ts', '.tsx', '.js', '.jsx')
JsExts == << <<".", "t", "s">>, <<".", "t", "s", "x">>,
             <<".", "j", "s">>, <<".", "j", "s", "x">> >>

\* for ext in exts: if name.endswith(ext): name = name[:-len(ext)]; break
RECURSIVE DropFirstExt(_, _)
DropFirstExt(name, exts) ==
    IF exts = <<>> THEN name
    ELSE IF EndsWith(name, Head(exts)) THEN DropLast(name, Len(Head(exts)))
    ELSE DropFirstExt(name, Tail(exts))

\* _module_name_for (mutant): the separators of a python path are kept
_module_name_for_slashes(path, lang) ==
    LET name == as_posix(path)
    IN  IF lang = "python"
        THEN (IF EndsWith(name, PyExt) THEN DropLast(name, 3) ELSE name)
        ELSE DropFirstExt(name, JsExts)

_module_name_for(path, lang) ==
    LET name == as_posix(path)
    IN  IF lang = "python"
        THEN ReplaceSlashes(IF EndsWith(name, PyExt) THEN DropLast(name, 3) ELSE name)
        ELSE DropFirstExt(name, JsExts)

----------------------------------------------------------------------------
(* SpecModuleName: _module_name_for called on bounded relative paths       *)

MaxDepth == 2

dirPkg   == <<"p","k","g">>
dirLib   == <<"l","i","b">>
stemMod  == <<"m","o","d">>
stemUtil == <<"u","t","i","l">>

\* directory names, among them the "." that pathlib drops
DirNames == {dirPkg, dirLib, <<".">>}
Stems == {stemMod, stemUtil}
Suffixes == { <<>>, PyExt, JsExts[1], JsExts[2], JsExts[3], JsExts[4],
              <<".", "j", "s", ".", "t", "s">>, <<".", "p", "y", "c">> }
Languages == {"python", "typescript", "javascript"}

\* dir/dir/stem.suffix with up to MaxDepth directories
RelPaths ==
    {JoinSlash(ds \o <<st \o sf>>) :
        ds \in UNION {[1..n -> DirNames] : n \in 0..MaxDepth},
        st \in Stems, sf \in Suffixes}

NameQuiet ==
    /\ rel_path = <<>> /\ language = "" /\ module = NoText /\ prevModule = NoText

InitName ==
    /\ rel_path \in RelPaths /\ language \in Languages
    /\ module = NoText /\ prevModule = NoText

\* one call _module_name_for(Path(rel_path), language)
ModuleName ==
    /\ module' = _module_name_for(rel_path, language)
    /\ prevModule' = module
    /\ UNCHANGED <<rel_path, language>>
    /\ UNCHANGED notNameVars

NextName == ModuleName

----------------------------------------------------------------------------
(* fs_map.py: scan_repo_tree                                               *)
(*                                                                         *)
(* A file is the sequence of the names on its way from the root: the       *)
(* directories, then the file's own name.  A descriptor is [path, type,    *)
(* language]; its size and lines fields are left out.  Of the arguments,   *)
(* exclude_dirs, include_exts and max_files are modelled; the glob, path   *)
(* prefix and size filters are not given.                                  *)

\* _CODE_EXTS and _DOC_EXTS: extension -> language
_CODE_EXTS ==
    (<<".","p","y">> :> <<"p","y","t","h","o","n">>)
    @@ (<<".","j","s">> :> <<"j","a","v","a","s","c","r","i","p","t">>)
    @@ (<<".","t","s">> :> <<"t","y","p","e","s","c","r","i","p","t">>)
    @@ (<<".","t","s","x">> :> <<"j","s","x">>)
    @@ (<<".","j","s","x">> :> <<"j","s","x">>)
    @@ (<<".","j","a","v","a">> :> <<"j","a","v","a">>)
    @@ (<<".","g","o">> :> <<"g","o">>)
    @@ (<<".","r","s">> :> <<"r","u","s","t">>)
    @@ (<<".","r","b">> :> <<"r","u","b","y">>)
    @@ (<<".","p","h","p">> :> <<"p","h","p">>)
    @@ (<<".","c","s">> :> <<"c","s","h","a","r","p">>)
    @@ (<<".","c","p","p">> :> <<"c","p","p">>)
    @@ (<<".","c">> :> <<"c">>)
    @@ (<<".","h">> :> <<"c","-","h","e","a","d","e","r">>)
    @@ (<<".","j","a","c">> :> <<"j","a","c","l","a","n","g">>)

_DOC_EXTS == (<<".","m","d">> :> <<"m","d">>) @@ (<<".","r","s","t">> :> <<"r","s","t">>)

EXCLUDE_DIRS == {
    <<".","g","i","t">>,
    <<".","g","i","t","h","u","b">>,
    <<"_","_","p","y","c","a","c","h","e","_","_">>,
    <<".","m","y","p","y","_","c","a","c","h","e">>,
    <<".","p","y","t","e","s","t","_","c","a","c","h","e">>,
    <<".","c","a","c","h","e">>,
    <<"n","o","d","e","_","m","o","d","u","l","e","s">>,
    <<".","v","e","n","v">>,
    <<"v","e","n","v">>,
    <<".","t","o","x">>,
    <<"d","i","s","t">>,
    <<"b","u","i","l","d">>,
    <<"s","i","t","e","-","p","a","c","k","a","g","e","s">>,
    <<".","i","d","e","a">>,
    <<".","v","s","c","o","d","e">>,
    <<".","e","g","g","s">>,
    <<".","s","v","n">>,
    <<".","h","g">>,
    <<"c","o","v","e","r","a","g","e">>,
    <<"h","t","m","l","c","o","v">>,
    <<"t","a","r","g","e","t">> }

\* the index of the last "." of a name, 0 when it has none (str.rfind, from 1)
LastDot(name) ==
    IF \E i \in DOMAIN name : name[i] = "."
    THEN CHOOSE i \in DOMAIN name :
             name[i] = "." /\ \A j \in (i + 1)..Len(name) : name[j] # "."
    ELSE 0

\* Path.suffix: the last dot and what follows it, unless that dot starts or ends
\* the name
Suffix(name) ==
    LET i == LastDot(name)
    IN  IF i > 1 /\ i < Len(name) THEN SubSeq(name, i, Len(name)) ELSE <<>>

\* str.lstrip(".")
RECURSIVE LStripDots(_)
LStripDots(s) == IF s # <<>> /\ Head(s) = "." THEN LStripDots(Tail(s)) ELSE s

\* _classify(rel): rel is the file's sequence of names
_classify(rel) ==
    LET ext == Lower(Suffix(rel[Len(rel)]))
    IN  IF ext \in DOMAIN _CODE_EXTS
        THEN [path |-> JoinSlash(rel), type |-> "CodeFile", language |-> _CODE_EXTS[ext]]
        ELSE IF ext \in DOMAIN _DOC_EXTS
        THEN [path |-> JoinSlash(rel), type |-> "Doc", language |-> _DOC_EXTS[ext]]
        ELSE [path |-> JoinSlash(rel), type |-> "Other", language |-> LStripDots(ext)]

\* final_excludes = set(EXCLUDE_DIRS); final_excludes.update(exclude_dirs)
FinalExcludes(ex) == EXCLUDE_DIRS \cup Range(ex)

\* {e.lower() if e.startswith(".") else f".{e.lower()}" for e in include_exts}
IncludeExtsNorm(exts) ==
    {IF e # <<>> /\ e[1] = "." THEN Lower(e) ELSE <<".">> \o Lower(e) : e \in Range(exts)}

\* what os.walk yields for the directory dir: its file names and its directory
\* names, each in the order of the listing
FileNamesIn(files, dir, order) ==
    SelectSeq(order, LAMBDA n : (dir \o <<n>>) \in files)
DirNamesIn(files, dir, order) ==
    SelectSeq(order, LAMBDA n :
        \E f \in files : Len(f) > Len(dir) + 1 /\ SubSeq(f, 1, Len(dir) + 1) = dir \o <<n>>)

\* dirnames[:] = ... (mutant): no directory is taken out
KeptDirs_all(dirnames, excludes) == dirnames

\* dirnames[:] = [d for d in dirnames if d not in final_excludes]
KeptDirs(dirnames, excludes) == SelectSeq(dirnames, LAMBDA d : d \notin excludes)

\* the body of `for fname in filenames` for the file rel; st = [out, returned]
ScanFile(st, rel, exts, cap) ==
    IF exts # <<>> /\ Lower(Suffix(rel[Len(rel)])) \notin IncludeExtsNorm(exts) THEN st
    ELSE [out |-> Append(st.out, _classify(rel)),
          returned |-> cap # 0 /\ Len(st.out) + 1 >= cap]

RECURSIVE ScanFilesLoop(_, _, _, _, _)
ScanFilesLoop(st, dir, fnames, exts, cap) ==
    IF fnames = <<>> \/ st.returned THEN st
    ELSE ScanFilesLoop(ScanFile(st, dir \o <<Head(fnames)>>, exts, cap),
                       dir, Tail(fnames), exts, cap)

\* os.walk(root, topdown=True) from directory dir on: the files of dir, then each
\* kept directory of dir in turn
RECURSIVE WalkDir(_, _, _, _, _, _, _)
RECURSIVE WalkDirsLoop(_, _, _, _, _, _, _, _)
WalkDir(st, files, dir, order, excludes, exts, cap) ==
    LET st1 == ScanFilesLoop(st, dir, FileNamesIn(files, dir, order), exts, cap)
    IN  WalkDirsLoop(st1, files, dir, KeptDirs(DirNamesIn(files, dir, order), excludes),
                     order, excludes, exts, cap)
WalkDirsLoop(st, files, dir, dnames, order, excludes, exts, cap) ==
    IF dnames = <<>> \/ st.returned THEN st
    ELSE WalkDirsLoop(WalkDir(st, files, dir \o <<Head(dnames)>>, order, excludes, exts, cap),
                      files, dir, Tail(dnames), order, excludes, exts, cap)

scan_repo_tree(files, order, ex, exts, cap) ==
    WalkDir([out |-> <<>>, returned |-> FALSE], files, <<>>, order,
            FinalExcludes(ex), exts, cap).out

----------------------------------------------------------------------------
(* SpecScan: scan_repo_tree called on bounded trees                        *)

MaxScanFiles == 3

n_src          == <<"s","r","c">>
n_docs         == <<"d","o","c","s">>
n_node_modules == <<"n","o","d","e","_","m","o","d","u","l","e","s">>
n_git          == <<".","g","i","t">>
n_vendor       == <<"v","e","n","d","o","r">>
n_Build        == <<"B","u","i","l","d">>
n_build        == <<"b","u","i","l","d">>
n_a_py         == <<"a",".","p","y">>
n_B_PY         == <<"B",".","P","Y">>
n_x_js         == <<"x",".","j","s">>
n_README_md    == <<"R","E","A","D","M","E",".","m","d">>
n_out_txt      == <<"o","u","t",".","t","x","t">>
n_config       == <<"c","o","n","f","i","g">>

\* the files a tree is drawn from: under default excluded directories, under a
\* directory the caller may exclude, under a directory named like an excluded one
\* but for the case, a file named like an excluded directory, and plain files
ScanPool == {
    <<n_a_py>>,
    <<n_docs, n_README_md>>,
    <<n_node_modules, n_x_js>>,
    <<n_src, n_node_modules, n_x_js>>,
    <<n_git, n_config>>,
    <<n_vendor, n_x_js>>,
    <<n_src, n_vendor, n_B_PY>>,
    <<n_src, n_B_PY>>,
    <<n_Build, n_out_txt>>,
    <<n_src, n_build>>,
    <<n_build, n_src, n_a_py>> }

ScanNames == <<n_a_py, n_B_PY, n_x_js, n_README_md, n_out_txt, n_config, n_build,
               n_src, n_docs, n_node_modules, n_git, n_vendor, n_Build>>

Reverse(s) == [i \in DOMAIN s |-> s[Len(s) + 1 - i]]

ScanQuiet ==
    /\ root_files = {} /\ listing = <<>> /\ exclude_dirs = <<>> /\ include_exts = <<>>
    /\ max_files = 0 /\ scan_out = <<>> /\ scanned = FALSE

InitScan ==
    /\ root_files \in {fs \in SUBSET ScanPool : Cardinality(fs) <= MaxScanFiles}
    /\ listing \in {ScanNames, Reverse(ScanNames)}
    /\ exclude_dirs \in {<<>>, <<n_vendor>>}
    /\ include_exts \in {<<>>, << <<"P","Y">>, <<".","m","d">> >>}
    /\ max_files \in {0, 1, 2}
    /\ scan_out = <<>> /\ scanned = FALSE

\* one call scan_repo_tree(root, exclude_dirs, include_exts=..., max_files=...)
Scan ==
    /\ scan_out' = scan_repo_tree(root_files, listing, exclude_dirs, include_exts, max_files)
    /\ scanned' = TRUE
    /\ UNCHANGED <<root_files, listing, exclude_dirs, include_exts, max_files>>
    /\ UNCHANGED notScanVars

NextScan == Scan

----------------------------------------------------------------------------
(* ts_analyze.py: the regular expressions of the line heuristics           *)
(*                                                                         *)
(* A match is computed left to right as the regex engine does; each        *)
(* pattern below is deterministic on any text (a greedy run followed by a  *)
(* character outside the run never needs backtracking).  White space is    *)
(* the blank and the newline.                                              *)

IsSpace(ch) == ch \in {" ", "\n"}
IsWord(ch) == IsAlnum(ch) \/ ch = "_"
IsIdentStart(ch) == IsWord(ch) /\ ~IsDigit(ch)

\* the index after the longest run of blanks (\s*) that starts at i
AfterSpaces(s, i) ==
    CHOOSE j \in i..(Len(s) + 1) :
        /\ \A k \in i..(j - 1) : IsSpace(s[k])
        /\ j = Len(s) + 1 \/ ~IsSpace(s[j])

\* the index after the longest run of word characters ([A-Za-z0-9_]*) from i
AfterWord(s, i) ==
    CHOOSE j \in i..(Len(s) + 1) :
        /\ \A k \in i..(j - 1) : IsWord(s[k])
        /\ j = Len(s) + 1 \/ ~IsWord(s[j])

\* the index after the longest run of [\w\.]* from i
AfterDotted(s, i) ==
    CHOOSE j \in i..(Len(s) + 1) :
        /\ \A k \in i..(j - 1) : IsWord(s[k]) \/ s[k] = "."
        /\ j = Len(s) + 1 \/ ~(IsWord(s[j]) \/ s[j] = ".")

\* the index after the longest run of [\w\*,\s]* from i
AfterNameList(s, i) ==
    CHOOSE j \in i..(Len(s) + 1) :
        /\ \A k \in i..(j - 1) : IsWord(s[k]) \/ s[k] \in {"*", ","} \/ IsSpace(s[k])
        /\ j = Len(s) + 1 \/ ~(IsWord(s[j]) \/ s[j] \in {"*", ","} \/ IsSpace(s[j]))

\* the text lit stands at index i of s
LitAt(s, i, lit) == i + Len(lit) - 1 <= Len(s) /\ SubSeq(s, i, i + Len(lit) - 1) = lit

\* character i of s exists and is ch / is a blank / starts an identifier
CharAt(s, i, ch) == i <= Len(s) /\ s[i] = ch
SpaceAt(s, i) == i <= Len(s) /\ IsSpace(s[i])
IdentAt(s, i) == i <= Len(s) /\ IsIdentStart(s[i])

NoMatch == [ok |-> FALSE]

\* _FUNC_DEF_RE.match(line): ^\s*def\s+([A-Za-z_][A-Za-z0-9_]*)\s*\(
FuncDefMatch(line) ==
    LET d == AfterSpaces(line, 1)
        n == AfterSpaces(line, d + 3)
        e == AfterWord(line, n)
    IN  IF /\ LitAt(line, d, <<"d","e","f">>) /\ SpaceAt(line, d + 3)
           /\ IdentAt(line, n) /\ CharAt(line, AfterSpaces(line, e), "(")
        THEN [ok |-> TRUE, name |-> SubSeq(line, n, e - 1)]
        ELSE NoMatch

\* the index of the first ")" of s at or after i, 0 when there is none
CloseParen(s, i) ==
    IF \E j \in i..Len(s) : s[j] = ")"
    THEN CHOOSE j \in i..Len(s) : s[j] = ")" /\ \A k \in i..(j - 1) : s[k] # ")"
    ELSE 0

\* _CLASS_DEF_RE.match(line):
\* ^\s*class\s+([A-Za-z_][A-Za-z0-9_]*)\s*(?:\(([^)]*)\))?\s*:
ClassDefMatch(line) ==
    LET c == AfterSpaces(line, 1)
        n == AfterSpaces(line, c + 5)
        e == AfterWord(line, n)
        o == AfterSpaces(line, e)
        z == CloseParen(line, o + 1)
    IN  IF ~(LitAt(line, c, <<"c","l","a","s","s">>) /\ SpaceAt(line, c + 5)
             /\ IdentAt(line, n))
        THEN NoMatch
        ELSE IF CharAt(line, o, "(") /\ z # 0 /\ CharAt(line, AfterSpaces(line, z + 1), ":")
        THEN [ok |-> TRUE, name |-> SubSeq(line, n, e - 1),
              bases |-> SubSeq(line, o + 1, z - 1)]
        ELSE IF CharAt(line, o, ":")
        THEN [ok |-> TRUE, name |-> SubSeq(line, n, e - 1), bases |-> <<>>]
        ELSE NoMatch

\* _PY_IMPORT_RE.match(line):
\* ^\s*import\s+([A-Za-z_][\w\.]*)(?:\s+as\s+([A-Za-z_][\w]*))?
\* alias is "" when the optional group did not take part (group(2) or "")
ImportMatch(line) ==
    LET i == AfterSpaces(line, 1)
        n == AfterSpaces(line, i + 6)
        e == AfterDotted(line, n)
        a == AfterSpaces(line, e)
        b == AfterSpaces(line, a + 2)
    IN  IF ~(LitAt(line, i, <<"i","m","p","o","r","t">>) /\ SpaceAt(line, i + 6)
             /\ IdentAt(line, n))
        THEN NoMatch
        ELSE IF /\ SpaceAt(line, e) /\ LitAt(line, a, <<"a","s">>)
                /\ SpaceAt(line, a + 2) /\ IdentAt(line, b)
        THEN [ok |-> TRUE, module |-> SubSeq(line, n, e - 1),
              alias |-> SubSeq(line, b, AfterWord(line, b) - 1)]
        ELSE [ok |-> TRUE, module |-> SubSeq(line, n, e - 1), alias |-> <<>>]

\* _PY_FROM_IMPORT_RE.match(line):
\* ^\s*from\s+([A-Za-z_][\w\.]*)\s+import\s+([A-Za-z_\*,\s][\w\*,\s]*)
\* When the text after the blanks cannot start group 2, the last blank starts it
\* (\s+ gives one blank back), provided \s+ keeps one.
FromImportMatch(line) ==
    LET f == AfterSpaces(line, 1)
        n == AfterSpaces(line, f + 4)
        e == AfterDotted(line, n)
        i == AfterSpaces(line, e)
        g == AfterSpaces(line, i + 6)
    IN  IF ~(/\ LitAt(line, f, <<"f","r","o","m">>) /\ SpaceAt(line, f + 4)
             /\ IdentAt(line, n) /\ SpaceAt(line, e)
             /\ LitAt(line, i, <<"i","m","p","o","r","t">>) /\ SpaceAt(line, i + 6))
        THEN NoMatch
        ELSE IF g <= Len(line) /\ (IsIdentStart(line[g]) \/ line[g] \in {"*", ","})
        THEN [ok |-> TRUE, module |-> SubSeq(line, n, e - 1),
              names |-> SubSeq(line, g, AfterNameList(line, g) - 1)]
        ELSE IF g - (i + 6) >= 2
        THEN [ok |-> TRUE, module |-> SubSeq(line, n, e - 1),
              names |-> SubSeq(line, g - 1, AfterNameList(line, g - 1) - 1)]
        ELSE NoMatch

\* _CALL_RE.findall(line) from index i on: \b([A-Za-z_][A-Za-z0-9_]*)\s*\(
RECURSIVE CallsFrom(_, _)
CallsFrom(line, i) ==
    IF i > Len(line) THEN <<>>
    ELSE IF IsIdentStart(line[i]) /\ (i = 1 \/ ~IsWord(line[i - 1]))
              /\ CharAt(line, AfterSpaces(line, AfterWord(line, i)), "(")
    THEN <<SubSeq(line, i, AfterWord(line, i) - 1)>>
         \o CallsFrom(line, AfterSpaces(line, AfterWord(line, i)) + 1)
    ELSE CallsFrom(line, i + 1)

_PY_KEYWORDS == {
    <<"d","e","f">>, <<"c","l","a","s","s">>, <<"r","e","t","u","r","n">>,
    <<"i","m","p","o","r","t">>, <<"f","r","o","m">>, <<"l","a","m","b","d","a">>,
    <<"i","f">>, <<"e","l","i","f">>, <<"e","l","s","e">>,
    <<"f","o","r">>, <<"w","h","i","l","e">>, <<"w","i","t","h">>,
    <<"t","r","y">>, <<"e","x","c","e","p","t">>, <<"f","i","n","a","l","l","y">>,
    <<"y","i","e","l","d">>, <<"a","s","y","n","c">>, <<"a","w","a","i","t">>,
    <<"p","a","s","s">>, <<"b","r","e","a","k">>, <<"c","o","n","t","i","n","u","e">> }

_BUILTIN_FUNCS == {
    <<"p","r","i","n","t">>, <<"l","e","n">>, <<"r","a","n","g","e">>,
    <<"l","i","s","t">>, <<"d","i","c","t">>, <<"s","e","t">>,
    <<"t","u","p","l","e">>, <<"i","n","t">>, <<"f","l","o","a","t">>,
    <<"s","t","r">>, <<"b","o","o","l">>, <<"s","u","m">>,
    <<"m","i","n">>, <<"m","a","x">>, <<"o","p","e","n">>,
    <<"e","n","u","m","e","r","a","t","e">>, <<"z","i","p">>, <<"m","a","p">>,
    <<"f","i","l","t","e","r">>, <<"a","n","y">>, <<"a","l","l">> }

----------------------------------------------------------------------------
(* ts_analyze.py: _naive_extract_python                                    *)
(*                                                                         *)
(* The file is its list of lines (text.splitlines()).  The record holds    *)
(* functions, classes, inherits, imports and calls; functions_detail and   *)
(* classes_detail (parameters, return annotations, docstrings) are left    *)
(* out: nothing else reads them and their code cannot raise.               *)

\* s.split(sep) for a one-character separator
RECURSIVE SplitOn(_, _, _)
SplitOn(s, sep, cur) ==
    IF s = <<>> THEN <<cur>>
    ELSE IF Head(s) = sep THEN <<cur>> \o SplitOn(Tail(s), sep, <<>>)
    ELSE SplitOn(Tail(s), sep, Append(cur, Head(s)))

\* str.strip(): white space off both ends
RECURSIVE StripSpaces(_)
StripSpaces(s) ==
    IF s # <<>> /\ IsSpace(Head(s)) THEN StripSpaces(Tail(s))
    ELSE IF s # <<>> /\ IsSpace(s[Len(s)]) THEN StripSpaces(SubSeq(s, 1, Len(s) - 1))
    ELSE s

\* [p.strip() for p in s.split(",") if p.strip()]
StrippedParts(s) ==
    LET parts == SplitOn(s, ",", <<>>)
        stripped == [k \in DOMAIN parts |-> StripSpaces(parts[k])]
    IN  SelectSeq(stripped, LAMBDA part : part # <<>>)

\* b.split(".")[-1]
LastDotted(b) == LET parts == SplitOn(b, ".", <<>>) IN parts[Len(parts)]

\* len(line) - len(line.lstrip(' '))
IndentOf(line) ==
    (CHOOSE j \in 1..(Len(line) + 1) :
        /\ \A k \in 1..(j - 1) : line[k] = " "
        /\ j = Len(line) + 1 \/ line[j] # " ") - 1

\* line.strip().startswith(lit)
StrippedStartsWith(line, lit) ==
    LET t == StripSpaces(line) IN Len(t) >= Len(lit) /\ SubSeq(t, 1, Len(lit)) = lit

\* the inherits entries of a class header: one per base that is not blank
InheritsOf(cls, idx) ==
    LET bases == StrippedParts(StripSpaces(cls.bases))
    IN  [k \in DOMAIN bases |->
            [class |-> cls.name, base |-> LastDotted(bases[k]), line |-> idx]]

\* the imports entry of an `import` line
ImportEntry(m, idx) ==
    [module |-> m.module, alias |-> m.alias, import_type |-> "import", line |-> idx]

\* the imports entries of a `from ... import` line
FromImportEntries(m, idx) ==
    LET found == StrippedParts(m.names)
        mods == IF found = <<>> THEN << <<"*">> >> ELSE found
    IN  [k \in DOMAIN mods |->
            [module |-> IF mods[k] # <<"*">> THEN m.module \o <<".">> \o mods[k]
                        ELSE m.module,
             alias |-> <<>>, import_type |-> "from_import", line |-> idx]]

\* the calls entries of a line (mutant): every match is kept
CallEntries_unfiltered(line, idx, caller) ==
    LET kept == CallsFrom(line, 1)
    IN  [k \in DOMAIN kept |-> [caller |-> caller, callee |-> kept[k], line |-> idx]]

\* the calls entries of a line: every match that is no keyword and no builtin
CallEntries(line, idx, caller) ==
    LET kept == SelectSeq(CallsFrom(line, 1),
                          LAMBDA c : c \notin _PY_KEYWORDS /\ c \notin _BUILTIN_FUNCS)
    IN  [k \in DOMAIN kept |-> [caller |-> caller, callee |-> kept[k], line |-> idx]]

\* the dedent test at the end of the loop body: current_func after the line
AfterDedent(current_func, current_indent, line) ==
    IF /\ current_func # <<>>
       /\ \/ StrippedStartsWith(line, <<"d","e","f"," ">>)
          \/ StrippedStartsWith(line, <<"c","l","a","s","s"," ">>)
       /\ IndentOf(line) <= current_indent
    THEN <<>>
    ELSE current_func

\* The body of `for idx, line in enumerate(lines, start=1)`.  st holds the five
\* lists and current_func (<<>> is None: both are falsy and give caller ""),
\* current_indent.
PyLine(st, line, idx) ==
    LET cls == ClassDefMatch(line)
        st1 == IF cls.ok
               THEN [st EXCEPT !.classes = Append(@, cls.name),
                               !.inherits = @ \o InheritsOf(cls, idx)]
               ELSE st
        fun == FuncDefMatch(line)
        imp == ImportMatch(line)
        frm == FromImportMatch(line)
    IN  IF fun.ok
        THEN [st1 EXCEPT !.functions = Append(@, fun.name),
                         !.current_func = fun.name,
                         !.current_indent = IndentOf(line)]
        ELSE [st1 EXCEPT
                !.imports = @ \o (IF imp.ok THEN <<ImportEntry(imp, idx)>> ELSE <<>>)
                              \o (IF frm.ok THEN FromImportEntries(frm, idx) ELSE <<>>),
                !.calls = @ \o CallEntries(line, idx, st.current_func),
                !.current_func = AfterDedent(st.current_func, st.current_indent, line)]

RECURSIVE PyLinesLoop(_, _, _)
PyLinesLoop(st, ls, idx) ==
    IF idx > Len(ls) THEN st ELSE PyLinesLoop(PyLine(st, ls[idx], idx), ls, idx + 1)

_naive_extract_python(ls) ==
    LET st == PyLinesLoop([functions |-> <<>>, classes |-> <<>>, inherits |-> <<>>,
                           imports |-> <<>>, calls |-> <<>>,
                           current_func |-> <<>>, current_indent |-> 0], ls, 1)
    IN  [functions |-> st.functions, classes |-> st.classes, inherits |-> st.inherits,
         imports |-> st.imports, calls |-> st.calls]

----------------------------------------------------------------------------
(* ts_analyze.py: _naive_extract_generic, _naive_extract                   *)

\* the index of the first quote character of s at or after i, 0 when there is none
NextQuote(s, i) ==
    IF \E j \in i..Len(s) : s[j] \in {"'", "\""}
    THEN CHOOSE j \in i..Len(s) :
            s[j] \in {"'", "\""} /\ \A k \in i..(j - 1) : s[k] \notin {"'", "\""}
    ELSE 0

\* \b before the word character at index i
WordStartAt(s, i) == i = 1 \/ ~IsWord(s[i - 1])

\* re.findall(r"\b<kw>\s+([A-Za-z_][A-Za-z0-9_]*)\s*\(", text) from index i on
RECURSIVE CalledAfterKeyword(_, _, _)
CalledAfterKeyword(text, kw, i) ==
    IF i > Len(text) THEN <<>>
    ELSE LET n == AfterSpaces(text, i + Len(kw))
             e == AfterWord(text, n)
         IN  IF /\ WordStartAt(text, i) /\ LitAt(text, i, kw)
                /\ SpaceAt(text, i + Len(kw)) /\ IdentAt(text, n)
                /\ CharAt(text, AfterSpaces(text, e), "(")
             THEN <<SubSeq(text, n, e - 1)>>
                  \o CalledAfterKeyword(text, kw, AfterSpaces(text, e) + 1)
             ELSE CalledAfterKeyword(text, kw, i + 1)

\* re.findall(r"\bclass\s+([A-Za-z_][A-Za-z0-9_]*)\b", text) from index i on
RECURSIVE ClassNamesFrom(_, _)
ClassNamesFrom(text, i) ==
    IF i > Len(text) THEN <<>>
    ELSE LET n == AfterSpaces(text, i + 5)
             e == AfterWord(text, n)
         IN  IF /\ WordStartAt(text, i) /\ LitAt(text, i, <<"c","l","a","s","s">>)
                /\ SpaceAt(text, i + 5) /\ IdentAt(text, n)
             THEN <<SubSeq(text, n, e - 1)>> \o ClassNamesFrom(text, e)
             ELSE ClassNamesFrom(text, i + 1)

\* re.findall(r"\bconst\s+([A-Za-z_][A-Za-z0-9_]*)\s*=\s*\([^)]*\)\s*=>", text)
RECURSIVE ArrowNamesFrom(_, _)
ArrowNamesFrom(text, i) ==
    IF i > Len(text) THEN <<>>
    ELSE LET n == AfterSpaces(text, i + 5)
             e == AfterWord(text, n)
             q == AfterSpaces(text, e)
             o == AfterSpaces(text, q + 1)
             z == CloseParen(text, o + 1)
             r == AfterSpaces(text, z + 1)
         IN  IF /\ WordStartAt(text, i) /\ LitAt(text, i, <<"c","o","n","s","t">>)
                /\ SpaceAt(text, i + 5) /\ IdentAt(text, n)
                /\ CharAt(text, q, "=") /\ CharAt(text, o, "(") /\ z # 0
                /\ LitAt(text, r, <<"=", ">">>)
             THEN <<SubSeq(text, n, e - 1)>> \o ArrowNamesFrom(text, r + 2)
             ELSE ArrowNamesFrom(text, i + 1)

\* from\s+['"]([^'"]+)['"] matches at index q of line
FromTailAt(line, q) ==
    LET t == AfterSpaces(line, q + 4)
    IN  /\ LitAt(line, q, <<"f","r","o","m">>) /\ SpaceAt(line, q + 4)
        /\ t <= Len(line) /\ line[t] \in {"'", "\""}
        /\ NextQuote(line, t + 1) > t + 1

\* _ESM_IMPORT_RE.match(line): ^\s*import\s+.+?from\s+['"]([^'"]+)['"]
\* \s+ takes every blank and .+? grows until `from` matches; only when that
\* fails does \s+ give its last blank to .+?, so that `from` may stand right
\* after the blanks.
EsmImportMatch(line) ==
    LET i == AfterSpaces(line, 1)
        s == AfterSpaces(line, i + 6)
        later == {q \in (s + 1)..Len(line) : FromTailAt(line, q)}
        q == IF later # {} THEN CHOOSE x \in later : \A y \in later : x <= y ELSE s
        t == AfterSpaces(line, q + 4)
    IN  IF /\ LitAt(line, i, <<"i","m","p","o","r","t">>) /\ SpaceAt(line, i + 6)
           /\ later # {} \/ (s >= i + 8 /\ FromTailAt(line, s))
        THEN [ok |-> TRUE, module |-> SubSeq(line, t + 1, NextQuote(line, t + 1) - 1)]
        ELSE NoMatch

\* _CJS_REQUIRE_RE.findall(line) from index i on:
\* require\(\s*['"]([^'"]+)['"]\s*\)
RECURSIVE RequiresFrom(_, _)
RequiresFrom(line, i) ==
    IF i > Len(line) THEN <<>>
    ELSE LET t == AfterSpaces(line, i + 8)
             c == NextQuote(line, t + 1)
             r == AfterSpaces(line, c + 1)
         IN  IF /\ LitAt(line, i, <<"r","e","q","u","i","r","e","(">>)
                /\ t <= Len(line) /\ line[t] \in {"'", "\""}
                /\ c > t + 1 /\ CharAt(line, r, ")")
             THEN <<SubSeq(line, t + 1, c - 1)>> \o RequiresFrom(line, r + 1)
             ELSE RequiresFrom(line, i + 1)

\* the imports entries of a line of a JS/TS file
JsImportEntries(line, idx) ==
    LET esm == EsmImportMatch(line)
        cjs == RequiresFrom(line, 1)
    IN  (IF esm.ok
         THEN << [module |-> esm.module, alias |-> <<>>, import_type |-> "esm",
                  line |-> idx] >>
         ELSE <<>>)
        \o [k \in DOMAIN cjs |->
               [module |-> cjs[k], alias |-> <<>>, import_type |-> "cjs", line |-> idx]]

\* the calls entries of a line of a JS/TS file: every match, with an empty caller
JsCallEntries(line, idx) ==
    LET found == CallsFrom(line, 1)
    IN  [k \in DOMAIN found |-> [caller |-> <<>>, callee |-> found[k], line |-> idx]]

\* the loop over text.splitlines() of the JS/TS branch
RECURSIVE JsLinesLoop(_, _, _)
JsLinesLoop(st, ls, idx) ==
    IF idx > Len(ls) THEN st
    ELSE JsLinesLoop([st EXCEPT !.imports = @ \o JsImportEntries(ls[idx], idx),
                                !.calls = @ \o JsCallEntries(ls[idx], idx)],
                     ls, idx + 1)

JsLanguages == {"javascript", "typescript", "tsx", "jsx"}

\* the text of the file is its lines joined by newlines
_naive_extract_generic(ls, lang) ==
    LET text == Join(ls)
    IN  IF lang \in JsLanguages
        THEN JsLinesLoop(
                [functions |-> CalledAfterKeyword(text, <<"f","u","n","c","t","i","o","n">>, 1)
                               \o ArrowNamesFrom(text, 1),
                 classes |-> ClassNamesFrom(text, 1),
                 inherits |-> <<>>, imports |-> <<>>, calls |-> <<>>], ls, 1)
        ELSE [functions |-> CalledAfterKeyword(text, <<"d","e","f">>, 1),
              classes |-> ClassNamesFrom(text, 1),
              inherits |-> <<>>, imports |-> <<>>, calls |-> <<>>]

_naive_extract(ls, lang) ==
    IF lang = "python" THEN _naive_extract_python(ls)
    ELSE _naive_extract_generic(ls, lang)

\* the tail of _process_single_file: the record with the module name and the
\* language attached (the file name is left out)
EntityData(ls, lang, path) ==
    LET data == _naive_extract(ls, lang)
    IN  [functions |-> data.functions, classes |-> data.classes,
         inherits |-> data.inherits, imports |-> data.imports, calls |-> data.calls,
         module |-> _module_name_for(path, lang), language |-> lang]

----------------------------------------------------------------------------
(* SpecHeuristic: the line heuristics run on one source file               *)

MaxLines == 3

l_def_a    == <<"d","e","f"," ","a","(",")",":">>
l_def_b_in == <<" "," ","d","e","f"," ","b","(",")",":">>
l_call_in  == <<" "," ","c","(","l","e","n","(","x",")",")">>
l_call_top == <<"c","(",")">>
l_class    == <<"c","l","a","s","s"," ","K","(","m",".","B",")",":">>
l_class_in == <<" "," ","c","l","a","s","s"," ","J",":">>
l_if       == <<" ","i","f"," ","(","d"," ","(",")",")",":">>
l_import   == <<"i","m","p","o","r","t"," ","x",".","y"," ","a","s"," ","z">>
l_from     == <<"f","r","o","m"," ","x"," ","i","m","p","o","r","t"," ","y"," ","a","s"," ","z",","," ","w">>

PyLinePool == {l_def_a, l_def_b_in, l_call_in, l_call_top, l_class, l_class_in,
               l_if, l_import, l_from}

j_function == <<"f","u","n","c","t","i","o","n"," ","f","(","x",")"," ","{">>
j_const    == <<"c","o","n","s","t"," ","g"," ","="," ","(","a",")"," ","=",">"," ","h","(","a",")">>
j_class    == <<"c","l","a","s","s"," ","K"," ","{">>
j_esm      == <<"i","m","p","o","r","t"," ","a"," ","f","r","o","m"," ","\"","m","\"">>
j_cjs      == <<"r"," ","="," ","r","e","q","u","i","r","e","(","'","q","'",")">>
j_call     == <<" "," ","f","(","g"," ","(","1",")",")">>

JsLinePool == {j_function, j_const, j_class, j_esm, j_cjs, j_call}

\* the lines given to the minimal branch
OtherLinePool == {l_def_a, l_class, l_call_top}

SourcesOver(pool) == UNION {[1..n -> pool] : n \in 0..MaxLines}

\* the file's path relative to the root
SourcePath(lang) ==
    IF lang = "python" THEN <<"a",".","p","y">>
    ELSE IF lang = "javascript" THEN <<"a",".","j","s">>
    ELSE <<"a",".","r","b">>

NoRecord == [none |-> TRUE]

HeuristicQuiet ==
    src_lines = <<>> /\ src_language = "" /\ naive = NoRecord /\ call_graph = <<>>

InitHeuristic ==
    /\ \/ src_language = "python" /\ src_lines \in SourcesOver(PyLinePool)
       \/ src_language = "javascript" /\ src_lines \in SourcesOver(JsLinePool)
       \/ src_language = "ruby" /\ src_lines \in SourcesOver(OtherLinePool)
    /\ naive = NoRecord
    /\ call_graph = <<>>

\* _process_single_file on the file: the heuristic of its language, then the
\* module name
NaiveExtract ==
    /\ naive = NoRecord
    /\ naive' = EntityData(src_lines, src_language, SourcePath(src_language))
    /\ UNCHANGED <<src_lines, src_language, call_graph>>
    /\ UNCHANGED notHeuristicVars

\* make_call_graph_mermaid on the entities that hold this one record
DrawCallGraph ==
    /\ naive # NoRecord
    /\ call_graph = <<>>
    /\ call_graph' = make_call_graph_mermaid(<<naive>>, DefaultMaxEdges, FALSE).lines
    /\ UNCHANGED <<src_lines, src_language, naive>>
    /\ UNCHANGED notHeuristicVars

NextHeuristic == NaiveExtract \/ DrawCallGraph

----------------------------------------------------------------------------
(* cache.py: CacheManager                                                  *)
(*                                                                         *)
(* A key stands for (cache_type, repo_url, kwargs): _get_cache_key hashes  *)
(* the sorted JSON of the url and the parameters and _get_cache_path adds  *)
(* the type, so that each key has a cache file of its own.  A cache file   *)
(* is [exists, mtime, content]; the content is the data dumped, or         *)
(* PartialJson after a dump that raised on the way.                        *)

NoData == "None"
PartialJson == "partial"
Unserialisable == "unserialisable"

NoFile == [exists |-> FALSE, mtime |-> 0, content |-> NoData]

\* age = time.time() - mtime; return age < self.ttl_seconds
_is_valid(file, now, ttl) == file.exists /\ now - file.mtime < ttl

\* get: None for a missing or expired file and for a file json.load rejects
CacheGet(files, key, now, ttl) ==
    IF ~_is_valid(files[key], now, ttl) THEN NoData
    ELSE IF files[key].content = PartialJson THEN NoData
    ELSE files[key].content

\* set: open("w") truncates the file, json.dump writes it; an exception of either
\* is swallowed.  When the file cannot be opened nothing changes; when the data
\* cannot be dumped the file keeps what was written before the exception.
CacheSet(files, key, data, writable, now) ==
    IF ~writable THEN files
    ELSE [files EXCEPT ![key] =
            [exists |-> TRUE, mtime |-> now,
             content |-> IF data = Unserialisable THEN PartialJson ELSE data]]

\* invalidate: unlink the file of the key if it exists
CacheInvalidate(files, key) == [files EXCEPT ![key] = NoFile]

\* clear_all: unlink every *.json of the cache directory
CacheClearAll(files) == [k \in DOMAIN files |-> NoFile]

\* clear_expired: unlink every *.json that is not valid
CacheClearExpired(files, now, ttl) ==
    [k \in DOMAIN files |-> IF _is_valid(files[k], now, ttl) THEN files[k] ELSE NoFile]

----------------------------------------------------------------------------
(* SpecCache: one CacheManager used with two keys while time passes        *)

MaxClock == 3
TtlSeconds == 2

CacheKeys == {"k1", "k2"}
CacheData == {"d1", "d2", Unserialisable}

NoSet == [none |-> TRUE]
NoGet == [none |-> TRUE]

CacheQuiet ==
    /\ cache_files = <<>> /\ clock = 0 /\ last_good = <<>> /\ got = NoGet

InitCache ==
    /\ cache_files = [k \in CacheKeys |-> NoFile]
    /\ clock = 0
    /\ last_good = [k \in CacheKeys |-> NoSet]
    /\ got = NoGet

\* set(type, url, data, **kwargs)
Set(key, data, writable) ==
    /\ cache_files' = CacheSet(cache_files, key, data, writable, clock)
    /\ last_good' = IF writable /\ data # Unserialisable
                    THEN [last_good EXCEPT ![key] = [data |-> data, at |-> clock]]
                    ELSE last_good
    /\ got' = NoGet
    /\ UNCHANGED clock
    /\ UNCHANGED notCacheVars

\* get(type, url, **kwargs)
Get(key) ==
    /\ got' = [key |-> key, data |-> CacheGet(cache_files, key, clock, TtlSeconds)]
    /\ UNCHANGED <<cache_files, clock, last_good>>
    /\ UNCHANGED notCacheVars

\* invalidate(type, url, **kwargs)
Invalidate(key) ==
    /\ cache_files' = CacheInvalidate(cache_files, key)
    /\ last_good' = [last_good EXCEPT ![key] = NoSet]
    /\ got' = NoGet
    /\ UNCHANGED clock
    /\ UNCHANGED notCacheVars

ClearAll ==
    /\ cache_files' = CacheClearAll(cache_files)
    /\ last_good' = [k \in CacheKeys |-> NoSet]
    /\ got' = NoGet
    /\ UNCHANGED clock
    /\ UNCHANGED notCacheVars

ClearExpired ==
    /\ cache_files' = CacheClearExpired(cache_files, clock, TtlSeconds)
    /\ got' = NoGet
    /\ UNCHANGED <<clock, last_good>>
    /\ UNCHANGED notCacheVars

\* a second passes
Tick ==
    /\ clock < MaxClock
    /\ clock' = clock + 1
    /\ got' = NoGet
    /\ UNCHANGED <<cache_files, last_good>>
    /\ UNCHANGED notCacheVars

NextCache ==
    \/ \E key \in CacheKeys, data \in CacheData, writable \in BOOLEAN :
           Set(key, data, writable)
    \/ \E key \in CacheKeys : Get(key)
    \/ \E key \in CacheKeys : Invalidate(key)
    \/ ClearAll
    \/ ClearExpired
    \/ Tick

----------------------------------------------------------------------------
(* repo.py: clone_or_open_repo                                             *)
(*                                                                         *)
(* The cache target directory of the remote URL is "absent", "partial" (a  *)
(* clone that failed left it behind) or "cloned".  What a clone run does   *)
(* is an input: its outcome, and whether a failed run leaves a partial     *)
(* directory.  shutil.rmtree is taken to succeed.                          *)

\* _cleanup_partial_dir: the target is removed if it exists
_cleanup_partial_dir(target) == "absent"

\* the target after a clone run that failed
AfterFailedRun(left) == IF left THEN "partial" ELSE "absent"

Raised(target, error) == [target |-> target, status |-> "raised", error |-> error]
ReturnedDir(target)   == [target |-> target, status |-> "returned", error |-> "none"]

\* the RuntimeError raised after a CalledProcessError with text msg
CloneError(msg) == IF msg = "not_found" THEN "repository not found" ELSE "failed to clone"

\* _clone_via_cli, called with the target absent.  run1, run2: "ok", "timeout",
\* "old_git" (stderr names the unknown filter option), "not_found", "error"
_clone_via_cli(run1, left1, run2, left2) ==
    IF run1 = "ok" THEN ReturnedDir("cloned")
    ELSE IF run1 = "timeout"
    THEN Raised(_cleanup_partial_dir(AfterFailedRun(left1)), "network timeout")
    ELSE IF run1 = "old_git"
    THEN IF run2 = "ok" THEN ReturnedDir("cloned")
         ELSE IF run2 = "timeout"
         THEN Raised(_cleanup_partial_dir(AfterFailedRun(left2)), "network timeout")
         ELSE Raised(_cleanup_partial_dir(AfterFailedRun(left2)), CloneError(run2))
    ELSE Raised(_cleanup_partial_dir(AfterFailedRun(left1)), CloneError(run1))

\* the GitPython fallback: Repo.clone_from in a try block whose handler raises
\* the RuntimeError and nothing else
CloneViaGitPython(run, left) ==
    IF run = "ok" THEN ReturnedDir("cloned")
    ELSE Raised(AfterFailedRun(left), CloneError(run))

\* clone_or_open_repo.  url: "local" (an existing directory), "org_only" (a GitHub
\* user or organisation URL), "remote"; target: the cache target directory of the
\* remote URL before the call
clone_or_open_repo(url, target, cli, gitpython, run1, left1, run2, left2) ==
    IF url = "local" THEN ReturnedDir(target)
    ELSE IF url = "org_only" THEN Raised(target, "invalid GitHub URL")
    ELSE IF target # "absent" THEN ReturnedDir(target)
    ELSE IF cli THEN _clone_via_cli(run1, left1, run2, left2)
    ELSE IF ~gitpython THEN Raised(target, "git is not available")
    ELSE CloneViaGitPython(run1, left1)

----------------------------------------------------------------------------
(* SpecRepo: clone_or_open_repo called again and again on one machine      *)

MaxCalls == 4

FirstRuns == {"ok", "timeout", "old_git", "not_found", "error"}
SecondRuns == {"ok", "timeout", "not_found", "error"}
GitPythonRuns == {"ok", "not_found", "error"}
UrlKinds == {"local", "org_only", "remote"}

NoCall == [none |-> TRUE]

RepoQuiet ==
    /\ target_dir = "absent" /\ git_cli = FALSE /\ git_python = FALSE
    /\ repo_call = NoCall /\ repo_calls = 0

InitRepo ==
    /\ target_dir = "absent"
    /\ git_cli \in BOOLEAN
    /\ git_python \in BOOLEAN
    /\ repo_call = NoCall
    /\ repo_calls = 0

\* one call of clone_or_open_repo.  The inputs a path does not read are fixed
\* (the second run unless the first met the old git, the CLI outcomes on the
\* GitPython path); a second run cannot succeed into a directory the first run
\* left behind.
CloneOrOpen(url, run1, left1, run2, left2) ==
    /\ repo_calls < MaxCalls
    /\ git_cli \/ (run1 \in GitPythonRuns /\ run2 = "ok" /\ ~left2)
    /\ run1 = "old_git" \/ (run2 = "ok" /\ ~left2)
    /\ ~(left1 /\ run1 = "old_git" /\ run2 = "ok")
    /\ LET r == clone_or_open_repo(url, target_dir, git_cli, git_python,
                                   run1, left1, run2, left2)
       IN  /\ target_dir' = r.target
           /\ repo_call' = [url |-> url, status |-> r.status, error |-> r.error,
                            before |-> target_dir]
    /\ repo_calls' = repo_calls + 1
    /\ UNCHANGED <<git_cli, git_python>>
    /\ UNCHANGED notRepoVars

NextRepo ==
    \E url \in UrlKinds, run1 \in FirstRuns, left1 \in BOOLEAN,
       run2 \in SecondRuns, left2 \in BOOLEAN :
        CloneOrOpen(url, run1, left1, run2, left2)

----------------------------------------------------------------------------
(* Properties of _id_for (SpecId)                                          *)

\* C5: within one cache the label-to-id assignment is one-to-one after any sequence
\* of requests (two distinct labels never hold the same id, also when a suffixed id
\* equals the sanitized form of another label), and a label requested again gets
\* the id it was first given.
C5_IdsOneToOne ==
    /\ \A l1, l2 \in DOMAIN cache : l1 # l2 => cache[l1] # cache[l2]
    /\ DOMAIN firstId = DOMAIN cache
    /\ \A l \in DOMAIN cache : cache[l] = firstId[l]
    /\ lastLabel # NoText => lastLabel \in DOMAIN firstId /\ lastId = firstId[lastLabel]

\* a cache in which a label got a suffixed id that is the sanitized form of another
\* label requested as well
C5_SuffixMeetsLabel ==
    \E l1, l2 \in DOMAIN cache :
        /\ l1 # l2
        /\ cache[l1] # _sanitize_id(l1)
        /\ cache[l1] = _sanitize_id(l2)
        /\ cache[l2] # cache[l1]

----------------------------------------------------------------------------
(* Properties of the renderers (SpecRender)                                *)

\* the number of edge lines of the returned text: every line after the header
EdgeLineCount == Cardinality({i \in DOMAIN out : out[i] = "\n"})

HeaderOf(k) == IF k = "class" THEN HeaderTB ELSE HeaderLR

\* the render went through every edge: the cap never cut it short
NotCut == Cardinality(edges) < max_edges

Declares(i, name)      == \E j \in DOMAIN entities[i].functions : entities[i].functions[j] = name
DeclaresClass(i, name) == \E j \in DOMAIN entities[i].classes : entities[i].classes[j] = name

Qualified(mod, name) == mod \o <<".">> \o name

Tested(l) == filter_tests /\ is_test_label(l)

\* the edges of the input that the renderer of kind k would emit without a cap,
\* as <<file index, edge index>>
CandidateCall(i, j) ==
    LET c == entities[i].calls[j]
    IN  /\ c.caller # <<>> /\ c.callee # <<>>
        /\ ~Tested(_label(entities[i].module, c.caller))
        /\ ~Tested(_label(CalleeModule(func_module, class_module, c.callee), c.callee))
CandidateInherit(i, j) ==
    LET h == entities[i].inherits[j]
    IN  h.class # <<>> /\ h.base # <<>> /\ ~Tested(h.class) /\ ~Tested(h.base)
CandidateImport(i, j) ==
    /\ entities[i].module # <<>>
    /\ entities[i].imports[j].module # <<>>
    /\ ~Tested(entities[i].module) /\ ~Tested(entities[i].imports[j].module)
CandidateEdges(k) ==
    UNION {IF k = "call"
           THEN {<<i, j>> : j \in {x \in DOMAIN entities[i].calls : CandidateCall(i, x)}}
           ELSE IF k = "class"
           THEN {<<i, j>> : j \in {x \in DOMAIN entities[i].inherits : CandidateInherit(i, x)}}
           ELSE {<<i, j>> : j \in {x \in DOMAIN entities[i].imports : CandidateImport(i, x)}}
           : i \in DOMAIN entities}

\* C3: for each renderer, every input and every configured maximum (0 included),
\* the number of edge lines never exceeds the maximum.
C3_EdgeLinesWithinMax == kind # "none" => EdgeLineCount <= max_edges

\* C4: with max_edges = 1 and at least two candidate edges in the input, each
\* renderer returns exactly the header line followed by exactly one edge line.
C4_CapOneGivesOneEdge ==
    (kind # "none" /\ max_edges = 1 /\ Cardinality(CandidateEdges(kind)) >= 2)
        => /\ EdgeLineCount = 1
           /\ Len(lines) = 2
           /\ lines[1] = HeaderOf(kind)
           /\ out = lines[1] \o <<"\n">> \o lines[2]

\* a call graph cut to one edge although the input holds two different ones
C4_TwoCandidatesOneLine ==
    /\ kind = "call" /\ max_edges = 1
    /\ \E e1, e2 \in CandidateEdges("call") :
           entities[e1[1]].calls[e1[2]] # entities[e2[1]].calls[e2[2]]
    /\ EdgeLineCount = 1

FirstDeclaring(name) ==
    CHOOSE i \in DOMAIN entities :
        Declares(i, name) /\ \A k \in 1..(i - 1) : ~Declares(k, name)
FirstDeclaringClass(name) ==
    CHOOSE i \in DOMAIN entities :
        DeclaresClass(i, name) /\ \A k \in 1..(i - 1) : ~DeclaresClass(k, name)

DeclaredFunctions == UNION {Range(entities[i].functions) : i \in DOMAIN entities}
DeclaredClasses   == UNION {Range(entities[i].classes) : i \in DOMAIN entities}

HasArrow(src, dst) ==
    /\ src \in DOMAIN id_cache /\ dst \in DOMAIN id_cache
    /\ \E k \in 2..Len(lines) : lines[k] = ArrowEdge(id_cache[src], src, id_cache[dst], dst)
HasExtends(sub, base) ==
    /\ sub \in DOMAIN id_cache /\ base \in DOMAIN id_cache
    /\ \E k \in 2..Len(lines) :
           lines[k] = ExtendsEdge(id_cache[sub], sub, id_cache[base], base)

\* C8: when a record with module a declares function foo and holds a call from foo
\* to bar, and the first record declaring function bar has module b, the call graph
\* holds the edge from a.foo to b.bar (when the cap did not cut the render short and
\* the test filter does not apply to the two labels).
C8_CallEdgeQualified ==
    (kind = "call" /\ NotCut) =>
        \A i \in DOMAIN entities : \A j \in DOMAIN entities[i].calls :
            LET c == entities[i].calls[j]
                a == entities[i].module
            IN  (/\ c.caller # <<>> /\ c.callee # <<>>
                 /\ Declares(i, c.caller) /\ a # <<>>
                 /\ c.callee \in DeclaredFunctions
                 /\ entities[FirstDeclaring(c.callee)].module # <<>>
                 /\ ~Tested(Qualified(a, c.caller))
                 /\ ~Tested(Qualified(entities[FirstDeclaring(c.callee)].module, c.callee)))
                => HasArrow(Qualified(a, c.caller),
                            Qualified(entities[FirstDeclaring(c.callee)].module, c.callee))

a_dot_foo == <<"a", ".", "f", "o", "o">>
b_dot_bar == <<"b", ".", "b", "a", "r">>

\* the scenario itself: module a with foo calling bar, then module b declaring bar
C8_Scenario ==
    /\ kind = "call" /\ Len(entities) = 2
    /\ entities[1].module = modA /\ Declares(1, foo)
    /\ entities[1].calls = <<Call(foo, bar)>>
    /\ entities[2].module = modB /\ Declares(2, bar)
    /\ lines = <<HeaderLR,
                 ArrowEdge(<<"a", "_", "f", "o", "o">>, a_dot_foo,
                           <<"b", "_", "b", "a", "r">>, b_dot_bar)>>

\* the inheritance edges the class-hierarchy loop reaches and does not skip
Inherit(i, j) == entities[i].inherits[j]
Goes(h) == h.class # <<>> /\ h.base # <<>> /\ ~Tested(h.class) /\ ~Tested(h.base)

\* C9 as stated: the subclass end of an inheritance edge carries its
\* module-qualified name and an unresolved base its bare name
\* (class Child(Base) in module m gives m.Child --extends--> Base).
C9_SubclassQualified ==
    (kind = "class" /\ NotCut) =>
        \A i \in DOMAIN entities : \A j \in DOMAIN entities[i].inherits :
            (/\ Goes(Inherit(i, j))
             /\ entities[i].module # <<>>
             /\ DeclaresClass(i, Inherit(i, j).class)
             /\ Inherit(i, j).base \notin DeclaredClasses)
            => HasExtends(Qualified(entities[i].module, Inherit(i, j).class),
                          Inherit(i, j).base)

\* C9 amended: the subclass end keeps its bare name as well
\* (class Child(Base) in module m gives Child --extends--> Base).
C9_SubclassBare ==
    (kind = "class" /\ NotCut) =>
        \A i \in DOMAIN entities : \A j \in DOMAIN entities[i].inherits :
            (/\ Goes(Inherit(i, j))
             /\ entities[i].module # <<>>
             /\ DeclaresClass(i, Inherit(i, j).class)
             /\ Inherit(i, j).base \notin DeclaredClasses)
            => HasExtends(Inherit(i, j).class, Inherit(i, j).base)

\* the scenario: Child(Base) declared in module a, Base declared nowhere
C9_Scenario ==
    /\ kind = "class" /\ Len(entities) = 1
    /\ entities[1].module = modA /\ DeclaresClass(1, Child)
    /\ entities[1].inherits = <<Inh(Child, Base)>>
    /\ lines = <<HeaderTB, ExtendsEdge(Child, Child, Base, Base)>>

\* C10: every edge line of the class hierarchy labels both ends with the bare class
\* names of an InheritEdge of the input, whatever the module of its record, and
\* carries the extends tag.
C10_InheritLinesBare ==
    kind = "class" =>
        /\ lines[1] = HeaderTB
        /\ \A k \in 2..Len(lines) :
               /\ Contains(lines[k], <<"-", "-", ">", "|", "e", "x", "t", "e", "n", "d", "s", "|">>)
               /\ \E i \in DOMAIN entities : \E j \in DOMAIN entities[i].inherits :
                      /\ Inherit(i, j).class \in DOMAIN id_cache
                      /\ Inherit(i, j).base \in DOMAIN id_cache
                      /\ lines[k] = ExtendsEdge(id_cache[Inherit(i, j).class],
                                                Inherit(i, j).class,
                                                id_cache[Inherit(i, j).base],
                                                Inherit(i, j).base)

\* a class hierarchy of two edge lines, one of them for a class that a record with
\* a non-empty module declares
C10_ModuleRecordRendered ==
    /\ kind = "class" /\ Len(lines) = 3
    /\ \E i \in DOMAIN entities : \E j \in DOMAIN entities[i].inherits :
           /\ entities[i].module # <<>>
           /\ DeclaresClass(i, Inherit(i, j).class)
           /\ HasExtends(Inherit(i, j).class, Inherit(i, j).base)

\* The edges of the input the renderer of kind k does not skip for an empty end,
\* each with the labels it is drawn with (src, dst) and with its module-qualified
\* labels (qsrc, qdst): the name prefixed with the module of the record, or of the
\* first record declaring it.
InputEnds(k) ==
    LET maps == _build_maps(entities)
    IN  UNION {IF k = "call"
               THEN {[src  |-> _label(entities[i].module, c.caller),
                      dst  |-> _label(CalleeModule(maps.func_module, maps.class_module,
                                                   c.callee), c.callee),
                      qsrc |-> _label(entities[i].module, c.caller),
                      qdst |-> _label(CalleeModule(maps.func_module, maps.class_module,
                                                   c.callee), c.callee)] :
                     c \in {x \in Range(entities[i].calls) :
                                x.caller # <<>> /\ x.callee # <<>>}}
               ELSE IF k = "class"
               THEN {[src  |-> h.class,
                      dst  |-> h.base,
                      qsrc |-> _label(entities[i].module, h.class),
                      qdst |-> _label(CalleeModule(EmptyDict, maps.class_module, h.base),
                                      h.base)] :
                     h \in {x \in Range(entities[i].inherits) :
                                x.class # <<>> /\ x.base # <<>>}}
               ELSE {[src  |-> entities[i].module, dst  |-> m.module,
                      qsrc |-> entities[i].module, qdst |-> m.module] :
                     m \in {x \in Range(entities[i].imports) :
                                entities[i].module # <<>> /\ x.module # <<>>}}
               : i \in DOMAIN entities}

\* the edge line of kind k between the labels src and dst, with the ids of the cache
LineOf(k, src, dst) ==
    IF k = "class" THEN ExtendsEdge(id_cache[src], src, id_cache[dst], dst)
    ELSE ArrowEdge(id_cache[src], src, id_cache[dst], dst)

\* line n of the render is the line of the input edge e
DrawnAs(n, e) ==
    /\ e.src \in DOMAIN id_cache /\ e.dst \in DOMAIN id_cache
    /\ lines[n] = LineOf(kind, e.src, e.dst)

\* C11 as stated: with the test filter set, every edge line of every renderer stems
\* from an input edge neither of whose module-qualified endpoint labels contains
\* "test" in any letter case.
C11_NoTestInQualifiedLabels ==
    (kind # "none" /\ filter_tests) =>
        \A n \in 2..Len(lines) :
            \E e \in InputEnds(kind) :
                DrawnAs(n, e) /\ ~is_test_label(e.qsrc) /\ ~is_test_label(e.qdst)

\* C11 amended: with the test filter set, every edge line of every renderer stems
\* from an input edge neither of whose labels as drawn contains "test" in any letter
\* case (module-qualified names in the call graph, module strings in the module
\* graph, bare class names in the class hierarchy), and no edge line holds "test".
C11_NoTestInDrawnLabels ==
    (kind # "none" /\ filter_tests) =>
        \A n \in 2..Len(lines) :
            /\ \E e \in InputEnds(kind) :
                   DrawnAs(n, e) /\ ~is_test_label(e.src) /\ ~is_test_label(e.dst)
            /\ ~Contains(Lower(lines[n]), <<"t","e","s","t">>)

\* a filtered call graph with an edge line, whose input holds a call from a test
\* label and a call from a non-test label to a label of a test module
C11_TestCallsDropped ==
    /\ kind = "call" /\ filter_tests /\ Len(lines) >= 2
    /\ \E e \in InputEnds("call") : is_test_label(e.src)
    /\ \E e \in InputEnds("call") :
           ~is_test_label(e.src) /\ Contains(e.dst, <<"t","e","s","t","s",".">>)

\* C18: every renderer returns a text that starts with its header line, and when
\* no edge qualifies (no records, no edges of the kind, or every edge skipped or
\* filtered) the text is exactly the header: flowchart LR for the call graph and
\* the module graph, flowchart TB for the class hierarchy.
C18_HeaderAlways ==
    kind # "none" =>
        LET header == IF kind = "class"
                      THEN <<"f","l","o","w","c","h","a","r","t"," ","T","B">>
                      ELSE <<"f","l","o","w","c","h","a","r","t"," ","L","R">>
        IN  /\ out # NoText
            /\ Len(out) >= Len(header)
            /\ SubSeq(out, 1, Len(header)) = header
            /\ Len(out) > Len(header) => out[Len(header) + 1] = "\n"
            /\ CandidateEdges(kind) = {} => out = header

\* a filtered module graph of records whose imports all touch a test module: the
\* header alone
C18_AllFilteredHeaderOnly ==
    /\ kind = "module" /\ filter_tests
    /\ \E e \in InputEnds("module") : TRUE
    /\ out = <<"f","l","o","w","c","h","a","r","t"," ","L","R">>

\* the distinct (source label, target label) pairs the input gives the renderer of
\* kind k once the test filter is applied
LabelPairs(k) ==
    {<<e.src, e.dst>> : e \in {x \in InputEnds(k) : ~Tested(x.src) /\ ~Tested(x.dst)}}

\* C19: no rendered diagram holds the same edge line twice: the number of edge
\* lines is the number of distinct (source label, target label) pairs emitted,
\* however often an edge occurs across files and within a file.
C19_NoEdgeLineTwice ==
    kind # "none" =>
        /\ \A k, n \in 2..Len(lines) : k # n => lines[k] # lines[n]
        /\ EdgeLineCount = Len(lines) - 1
        /\ EdgeLineCount = Cardinality(edges)
        /\ EdgeLineCount <= Cardinality(LabelPairs(kind))
        /\ NotCut => EdgeLineCount = Cardinality(LabelPairs(kind))

\* a call graph of one edge line whose input holds that call twice in one record
\* and again in another record
C19_RepeatedCallOneLine ==
    /\ kind = "call" /\ NotCut /\ Len(lines) = 2
    /\ \E i, j \in DOMAIN entities :
           /\ i # j
           /\ \E a, b \in DOMAIN entities[i].calls : \E c \in DOMAIN entities[j].calls :
                  /\ a # b
                  /\ entities[i].calls[a] = entities[i].calls[b]
                  /\ entities[i].calls[a] = entities[j].calls[c]
                  /\ entities[i].module = entities[j].module
                  /\ CandidateCall(i, a)

\* the module the claim gives a callee: that of the first record declaring it as a
\* function, unless there is none or its module string is empty; then that of the
\* first record declaring it as a class; else none
OwnerOf(n) ==
    IF n \in DeclaredFunctions /\ entities[FirstDeclaring(n)].module # <<>>
    THEN entities[FirstDeclaring(n)].module
    ELSE IF n \in DeclaredClasses /\ entities[FirstDeclaringClass(n)].module # <<>>
    THEN entities[FirstDeclaringClass(n)].module
    ELSE <<>>

\* the two labels of the edge of call c of record i
CallLabels(i, c) ==
    [src |-> _label(entities[i].module, c.caller), dst |-> _label(OwnerOf(c.callee), c.callee)]

\* C27: a callee that one record declares as a function and another as a class is
\* labelled with the module of the function's record, whichever record comes
\* first; the module of the class's record is used only when no record declares
\* the name as a function, or when the function's module string is empty.
C27_FunctionOwnerBeforeClass ==
    kind = "call" =>
        /\ \A k \in 2..Len(lines) :
               \E i \in DOMAIN entities : \E j \in DOMAIN entities[i].calls :
                   LET c == entities[i].calls[j]
                       l == CallLabels(i, c)
                   IN  /\ c.caller # <<>> /\ c.callee # <<>>
                       /\ l.src \in DOMAIN id_cache /\ l.dst \in DOMAIN id_cache
                       /\ lines[k] = ArrowEdge(id_cache[l.src], l.src, id_cache[l.dst], l.dst)
        /\ NotCut =>
               \A i \in DOMAIN entities : \A j \in DOMAIN entities[i].calls :
                   LET c == entities[i].calls[j]
                       l == CallLabels(i, c)
                   IN  (c.caller # <<>> /\ c.callee # <<>> /\ ~Tested(l.src) /\ ~Tested(l.dst))
                           => HasArrow(l.src, l.dst)

b_dot_foo == <<"b", ".", "f", "o", "o">>
a_dot_bar == <<"a", ".", "b", "a", "r">>

\* module b declares the class bar and calls bar from foo; module a, which comes
\* second, declares the function bar: the edge goes to a.bar
C27_ClassRecordFirst ==
    /\ kind = "call" /\ Len(entities) = 2
    /\ entities[1].module = modB /\ DeclaresClass(1, bar) /\ ~Declares(1, bar)
    /\ entities[2].module = modA /\ Declares(2, bar)
    /\ HasArrow(b_dot_foo, a_dot_bar)

\* the locals of the same render with a maximum no input of the model reaches
FullRender ==
    IF kind = "call" THEN make_call_graph_mermaid(entities, DefaultMaxEdges, filter_tests)
    ELSE IF kind = "class"
    THEN make_class_hierarchy_mermaid(entities, DefaultMaxEdges, filter_tests)
    ELSE make_module_graph_mermaid(entities, DefaultMaxEdges, filter_tests)

\* C24: for every input and every maximum k >= 1 the diagram rendered with
\* maximum k is a prefix of the diagram rendered without reaching the maximum:
\* the header followed by the first min(k, total) distinct edge lines in traversal
\* order, with the same node ids.
C24_CappedIsPrefixOfFull ==
    (kind # "none" /\ max_edges >= 1) =>
        LET full == FullRender
            n == Min(max_edges, Len(full.lines) - 1)
        IN  /\ lines = SubSeq(full.lines, 1, n + 1)
            /\ out = Join(SubSeq(full.lines, 1, n + 1))
            /\ \A l \in DOMAIN id_cache :
                   l \in DOMAIN full.id_cache /\ id_cache[l] = full.id_cache[l]

\* a module graph cut after its first edge line although the full one has two
C24_CutAfterFirstOfTwo ==
    /\ kind = "module" /\ max_edges = 1
    /\ Len(FullRender.lines) = 3
    /\ lines = SubSeq(FullRender.lines, 1, 2)

----------------------------------------------------------------------------
(* Properties of extract_entities (SpecExtract)                            *)

ErrorsOf(agg) == IF "errors" \in DOMAIN agg THEN agg.errors ELSE <<>>

\* descriptor i is a code file whose file is there when it is processed
ExistingCodeFile(i) ==
    /\ file_tree[i].type = "CodeFile"
    /\ file_tree[i].path # NoPath
    /\ disk[file_tree[i].path] # "missing"

\* C1: whenever extract_entities returns, sequential or parallel, the aggregate
\* holds for every code file descriptor whose file exists exactly one item: one
\* entity record or one error, never both and never neither.
C1_ExactlyOneItem ==
    pc = "returned" =>
        \A i \in DOMAIN file_tree :
            ExistingCodeFile(i) =>
                Cardinality({k \in DOMAIN ret.files :
                                 ret.files[k].file = Abs(file_tree[i].path)})
                + Cardinality({k \in DOMAIN ErrorsOf(ret) :
                                   ErrorsOf(ret)[k].file = Abs(file_tree[i].path)}) = 1

\* a parallel call that returned records and the error of a file that exists
C1_ParallelWithError ==
    /\ pc = "returned" /\ use_parallel
    /\ Len(ret.files) >= ParallelThreshold
    /\ \E i \in DOMAIN file_tree :
           /\ ExistingCodeFile(i)
           /\ \E k \in DOMAIN ret.errors : ret.errors[k].file = Abs(file_tree[i].path)

\* C2: on the same input the parallel run returns the same set of entity records
\* and the same set of errors as the sequential run, whatever the order in which
\* the workers complete.
C2_SeqParSameSets ==
    (pc = "returned" /\ use_parallel) =>
        LET s == SeqLoop(code_files, <<>>, <<>>)
        IN  /\ s.status = "returned"
            /\ Range(s.files) = Range(ret.files)
            /\ Range(s.errors) = Range(ret.errors)

\* descriptor i is a code file with a path on which the extractor raises / returns
FailingCodeFile(i)  == ExistingCodeFile(i) /\ disk[file_tree[i].path] = "raises"
ReadableCodeFile(i) == ExistingCodeFile(i) /\ disk[file_tree[i].path] = "ok"

\* descriptor i is a code file without a "path" key
PathlessCodeFile(i) == file_tree[i].type = "CodeFile" /\ file_tree[i].path = NoPath

\* the number of entries of list l that equal entry e
Times(l, e) == Cardinality({k \in DOMAIN l : l[k] = e})

\* C13: a failure inside the extraction of one file becomes exactly one error entry
\* with that file's path and the stringified cause and no record; every readable
\* file of the same batch has exactly its one record and no error, whatever the
\* other files did; such failures never make the call raise.
C13_FailureIsolated ==
    /\ pc = "returned" =>
           \A i \in DOMAIN file_tree :
               LET f == Abs(file_tree[i].path)
               IN  /\ FailingCodeFile(i) =>
                          /\ Times(ErrorsOf(ret), [file |-> f, error |-> "extraction failed"]) = 1
                          /\ Cardinality({k \in DOMAIN ErrorsOf(ret) :
                                              ErrorsOf(ret)[k].file = f}) = 1
                          /\ Times(ret.files, [file |-> f]) = 0
                   /\ ReadableCodeFile(i) =>
                          /\ Times(ret.files, [file |-> f]) = 1
                          /\ Cardinality({k \in DOMAIN ErrorsOf(ret) :
                                              ErrorsOf(ret)[k].file = f}) = 0
    /\ pc = "raised" => \E i \in DOMAIN file_tree : PathlessCodeFile(i)

\* a sequential call that returned the error of a failing file and the record of a
\* readable file that comes after it
C13_RecordAfterFailure ==
    /\ pc = "returned" /\ ~use_parallel
    /\ \E i, j \in DOMAIN file_tree :
           /\ i < j /\ FailingCodeFile(i) /\ ReadableCodeFile(j)
           /\ Times(ret.errors, [file |-> Abs(file_tree[i].path),
                                  error |-> "extraction failed"]) = 1
           /\ Times(ret.files, [file |-> Abs(file_tree[j].path)]) = 1

\* C14: a failure raised by the call of the per-file worker before its try block (a
\* descriptor without a path) is caught by extract_entities and reported as one
\* {file, error} entry, in sequential and in parallel mode: the call never raises.
C14_WorkerFailureCaught ==
    /\ pc # "raised"
    /\ pc = "returned" =>
           Cardinality({k \in DOMAIN ErrorsOf(ret) : ErrorsOf(ret)[k].error = "TypeError"})
               = Cardinality({i \in DOMAIN file_tree : PathlessCodeFile(i)})

\* descriptor i is a code file with a path whose file is not there
MissingCodeFile(i) ==
    /\ file_tree[i].type = "CodeFile" /\ file_tree[i].path # NoPath
    /\ disk[file_tree[i].path] = "missing"

\* C15: a code file descriptor whose file does not exist when it is processed
\* contributes nothing to the aggregate, neither a record nor an error.
C15_MissingFileDropped ==
    pc = "returned" =>
        \A i \in DOMAIN file_tree :
            MissingCodeFile(i) =>
                /\ \A k \in DOMAIN ret.files : ret.files[k].file # Abs(file_tree[i].path)
                /\ \A k \in DOMAIN ErrorsOf(ret) :
                       ErrorsOf(ret)[k].file # Abs(file_tree[i].path)

\* C16 as stated: in parallel mode the number of files extracted at the same time
\* never exceeds min(hardware parallelism, 8), with or without a worker-count
\* override, and never exceeds an override that is smaller.
C16_WithinHardwareCap ==
    pc = "par" =>
        /\ Cardinality(Running) <= Min(cpu_count, WorkerCap)
        /\ workers_arg # 0 => Cardinality(Running) <= workers_arg

\* C16 amended: the number of files extracted at the same time never exceeds the
\* pool size, which is the override when one is given (smaller or larger than the
\* hardware parallelism) and min(hardware parallelism, 8) otherwise.
C16_WithinPoolSize ==
    pc = "par" =>
        Cardinality(Running) <= IF workers_arg # 0 THEN workers_arg
                                ELSE Min(cpu_count, WorkerCap)

\* a parallel call without override on a machine with more than 8 cpus, while 8
\* files are being extracted and others wait
C16_EightAtOnce ==
    /\ pc = "par" /\ workers_arg = 0 /\ cpu_count > WorkerCap
    /\ Cardinality(Running) = WorkerCap
    /\ Len(code_files) > Cardinality(finished) + WorkerCap

\* the place in file_tree of the descriptor an item of the aggregate belongs to
DescriptorOf(item) ==
    CHOOSE i \in DOMAIN file_tree : file_tree[i].path = item.file.rel

\* the items of list l come in the order of their descriptors
InInputOrder(l) ==
    \A k, n \in DOMAIN l : k < n => DescriptorOf(l[k]) < DescriptorOf(l[n])

\* C17: under sequential execution the entity records of the aggregate come in the
\* relative order of their descriptors in the input list, and so do the errors.
C17_SequentialKeepsOrder ==
    (pc = "returned" /\ ~use_parallel /\ code_files # <<>>) =>
        /\ \A k \in DOMAIN ret.files :
               \E i \in DOMAIN file_tree : file_tree[i].path = ret.files[k].file.rel
        /\ \A k \in DOMAIN ret.errors :
               \E i \in DOMAIN file_tree : file_tree[i].path = ret.errors[k].file.rel
        /\ InInputOrder(ret.files)
        /\ InInputOrder(ret.errors)

\* a sequential call that returned two errors with a record between their files
C17_TwoErrorsAroundRecord ==
    /\ pc = "returned" /\ ~use_parallel
    /\ Len(ErrorsOf(ret)) = 2 /\ Len(ret.files) = 1
    /\ DescriptorOf(ret.errors[1]) < DescriptorOf(ret.files[1])
    /\ DescriptorOf(ret.files[1]) < DescriptorOf(ret.errors[2])

\* C20: the aggregate extract_entities returns always holds both an entity list
\* and an error list, for every input and both modes, also when the input has no
\* code file descriptor.
C20_BothListsAlways ==
    pc = "returned" => "files" \in DOMAIN ret /\ "errors" \in DOMAIN ret

----------------------------------------------------------------------------
(* Properties of _module_name_for (SpecModuleName)                         *)

pkg_mod_py  == <<"p","k","g","/","m","o","d",".","p","y">>
pkg_dot_mod == <<"p","k","g",".","m","o","d">>
lib_util_ts == <<"l","i","b","/","u","t","i","l",".","t","s">>
lib_util    == <<"l","i","b","/","u","t","i","l">>

\* C12: the module string depends only on (relative path, language).  For python
\* the .py extension is stripped and every separator becomes a dot
\* (pkg/mod.py gives pkg.mod); for the JS/TS languages one recognized extension
\* is stripped and the separators are kept (lib/util.ts gives lib/util); a second
\* call on the same input returns the same string.
C12_ModuleNameDerived ==
    module # NoText =>
        LET name == as_posix(rel_path)
            whole == IF EndsWith(name, PyExt) THEN module \o PyExt ELSE module
        IN  /\ language = "python" =>
                   /\ ~Contains(module, <<"/">>)
                   /\ Len(whole) = Len(name)
                   /\ \A k \in DOMAIN name :
                          whole[k] = IF name[k] = "/" THEN "." ELSE name[k]
            /\ language # "python" =>
                   \/ \E k \in DOMAIN JsExts : name = module \o JsExts[k]
                   \/ module = name /\ \A k \in DOMAIN JsExts : ~EndsWith(name, JsExts[k])
            /\ (rel_path = pkg_mod_py /\ language = "python") => module = pkg_dot_mod
            /\ (rel_path = lib_util_ts /\ language = "typescript") => module = lib_util
            /\ prevModule # NoText => module = prevModule

\* pkg/mod.py derived twice for python
C12_PkgModTwice ==
    /\ rel_path = pkg_mod_py /\ language = "python"
    /\ module = pkg_dot_mod /\ prevModule = pkg_dot_mod

----------------------------------------------------------------------------
(* Properties of scan_repo_tree (SpecScan)                                 *)

\* file f lies under a directory whose name is excluded, by default or by the caller
UnderExcluded(f) ==
    \E i \in 1..(Len(f) - 1) : f[i] \in EXCLUDE_DIRS \cup Range(exclude_dirs)

\* the extension of file f, lowercased, is among the extensions asked for
ExtensionAsked(f) ==
    \/ include_exts = <<>>
    \/ \E k \in DOMAIN include_exts :
           LET e == Lower(include_exts[k])
           IN  EndsWith(Lower(f[Len(f)]), IF e[1] = "." THEN e ELSE <<".">> \o e)

\* the descriptors of file f in the result
ItemsOf(f) == {k \in DOMAIN scan_out : scan_out[k].path = JoinSlash(f)}

\* the type and the language the extension of a name stands for
TypedAs(name, type, lang) ==
    \A k \in ItemsOf(name) : scan_out[k].type = type /\ scan_out[k].language = lang

\* C21: scan_repo_tree never returns a file that lies under a directory whose name
\* is in the exclusion set (the default names and those the caller gives); every
\* descriptor returned is a file of the tree; a file outside the excluded
\* directories that passes the filters is returned once, unless max_files ended
\* the scan, with the type and the language of its extension.
C21_ExcludedDirsSkipped ==
    scanned =>
        /\ \A k \in DOMAIN scan_out :
               \E f \in root_files :
                   scan_out[k].path = JoinSlash(f) /\ ~UnderExcluded(f) /\ ExtensionAsked(f)
        /\ \A f \in root_files :
               /\ UnderExcluded(f) => ItemsOf(f) = {}
               /\ Cardinality(ItemsOf(f)) <= 1
               /\ (~UnderExcluded(f) /\ ExtensionAsked(f)
                      /\ (max_files = 0 \/ Len(scan_out) < max_files))
                    => Cardinality(ItemsOf(f)) = 1
               /\ EndsWith(Lower(f[Len(f)]), <<".","p","y">>) =>
                      TypedAs(f, "CodeFile", <<"p","y","t","h","o","n">>)
               /\ EndsWith(f[Len(f)], <<".","j","s">>) =>
                      TypedAs(f, "CodeFile", <<"j","a","v","a","s","c","r","i","p","t">>)
               /\ EndsWith(f[Len(f)], <<".","m","d">>) => TypedAs(f, "Doc", <<"m","d">>)
               /\ EndsWith(f[Len(f)], <<".","t","x","t">>) =>
                      TypedAs(f, "Other", <<"t","x","t">>)
               /\ ~Contains(f[Len(f)], <<".">>) => TypedAs(f, "Other", <<>>)

\* a scan that returned a.py as python code and left out a file under a default
\* excluded directory and a file under a directory the caller excluded
C21_ExcludedLeftOut ==
    /\ scanned
    /\ <<n_src, n_node_modules, n_x_js>> \in root_files
    /\ <<n_vendor, n_x_js>> \in root_files
    /\ exclude_dirs = <<n_vendor>>
    /\ scan_out = << [path |-> n_a_py, type |-> "CodeFile",
                      language |-> <<"p","y","t","h","o","n">>] >>

----------------------------------------------------------------------------
(* Properties of the Python line heuristic (SpecHeuristic)                 *)

\* the Python heuristic has run on the file
Extracted == naive # NoRecord /\ src_language = "python"

\* line k of the file is a function header / a def or class header
IsFuncHeader(k) == FuncDefMatch(src_lines[k]).ok
IsDefOrClassHeader(k) ==
    FuncDefMatch(src_lines[k]).ok \/ ClassDefMatch(src_lines[k]).ok

\* the line of the most recent function header above line k, 0 when there is none
HeaderAbove(k) ==
    IF \E h \in 1..(k - 1) : IsFuncHeader(h)
    THEN CHOOSE h \in 1..(k - 1) :
            IsFuncHeader(h) /\ \A j \in (h + 1)..(k - 1) : ~IsFuncHeader(j)
    ELSE 0

\* a def or class header indented no deeper than the header at line h stands on
\* one of the lines h+1 .. k
ClosedBy(h, k) ==
    \E j \in (h + 1)..k :
        IsDefOrClassHeader(j) /\ IndentOf(src_lines[j]) <= IndentOf(src_lines[h])

\* the caller of a call on line k: the function of the most recent header above,
\* unless a header closed it on a line up to and including k
EnclosingFunction(k) ==
    IF HeaderAbove(k) = 0 \/ ClosedBy(HeaderAbove(k), k) THEN <<>>
    ELSE FuncDefMatch(src_lines[HeaderAbove(k)]).name

\* C22: in the Python line scan a call on a line is attributed to function f
\* exactly when f's header is the most recent function header above the line and
\* no def or class header indented no deeper than f's header has occurred since,
\* the call's own line included; every other call has the empty caller.
C22_CallerIsEnclosingFunction ==
    Extracted =>
        \A k \in DOMAIN naive.calls :
            naive.calls[k].caller = EnclosingFunction(naive.calls[k].line)

----------------------------------------------------------------------------
(* Properties of extract_entities whose records are rendered (SpecExtract) *)

\* What the extractor reads in the file at path p: the files at paths 1 and 2 both
\* declare the function bar, the file at path 3 declares foo, which calls bar;
\* every file has a module name of its own.
EntityAt(p) ==
    Rec(<<"m">> \o Dec(p),
        IF p \in {1, 2} THEN <<bar>> ELSE IF p = 3 THEN <<foo>> ELSE <<>>,
        <<>>,
        IF p = 3 THEN <<Call(foo, bar)>> ELSE <<>>,
        <<>>, <<>>)

\* the "files" list of an aggregate as the renderers read it
EntitiesOf(files) == [k \in DOMAIN files |-> EntityAt(files[k].file.rel)]

\* the record of list l that declares name and whose descriptor comes first in
\* the input list
FirstInInput(l, name) ==
    CHOOSE k \in DOMAIN l :
        /\ name \in Range(EntityAt(l[k].file.rel).functions)
        /\ \A n \in DOMAIN l :
               name \in Range(EntityAt(l[n].file.rel).functions)
                   => DescriptorOf(l[k]) <= DescriptorOf(l[n])

\* C23: when the records of a parallel extract_entities call are rendered, the
\* module that owns a name declared in two files is the module of the file that
\* comes first in the input descriptor order, whatever the order in which the
\* workers complete; the call graph rendered from them is the one rendered from
\* the records of the sequential loop over the same input.
C23_OwnerIndependentOfCompletion ==
    (pc = "returned" /\ use_parallel) =>
        LET maps == _build_maps(EntitiesOf(ret.files))
            seq == SeqLoop(code_files, <<>>, <<>>)
        IN  /\ \A name \in DOMAIN maps.func_module :
                   maps.func_module[name]
                       = EntityAt(ret.files[FirstInInput(ret.files, name)].file.rel).module
            /\ seq.status = "returned" =>
                   make_call_graph_mermaid(EntitiesOf(ret.files), DefaultMaxEdges, FALSE).lines
                       = make_call_graph_mermaid(EntitiesOf(seq.files), DefaultMaxEdges, FALSE).lines

\* line k of the file is an import statement
IsImportLine(k) == ImportMatch(src_lines[k]).ok \/ FromImportMatch(src_lines[k]).ok

\* the aliases a line carries: every identifier that follows " as "
AliasesOn(line) ==
    {SubSeq(line, i + 4, AfterWord(line, i + 4) - 1) :
        i \in {j \in DOMAIN line : LitAt(line, j, <<" ","a","s"," ">>)
                                   /\ IdentAt(line, j + 4)}}

\* C25: every import statement that carries an alias yields an ImportEdge whose
\* alias field holds that alias, for `import X as A` and for
\* `from X import Y as A` alike, and whose module field does not contain the
\* alias text.
C25_AliasKept ==
    Extracted =>
        \A k \in DOMAIN src_lines : IsImportLine(k) =>
            \A A \in AliasesOn(src_lines[k]) :
                /\ \E n \in DOMAIN naive.imports :
                       naive.imports[n].line = k /\ naive.imports[n].alias = A
                /\ \A n \in DOMAIN naive.imports :
                       naive.imports[n].line = k
                           => ~Contains(naive.imports[n].module, <<" ","a","s"," ">> \o A)

\* the call graph of the file's record has been drawn
Drawn == call_graph # <<>>

\* the text of a node as an edge line holds it, without the id
NodeText(label) == <<"[", "\"">> \o label \o <<"\"", "]">>

\* edge line l goes from the caller of call c to its callee
EdgeLineOf(l, c) ==
    LET maps == _build_maps(<<naive>>)
        dst == _label(CalleeModule(maps.func_module, maps.class_module, c.callee), c.callee)
    IN  /\ Contains(l, NodeText(_label(naive.module, c.caller)) \o <<" ","-","-",">"," ">>)
        /\ EndsWith(l, NodeText(dst))

\* C26: a CallEdge whose caller is empty never produces a call-graph edge: every
\* edge line stems from a call with a caller, and a record whose calls all have
\* an empty caller gives the header alone.  A record from the JS/TS heuristic,
\* whose calls always have an empty caller, contributes no call-graph edge.
C26_NoEdgeWithoutCaller ==
    Drawn =>
        /\ call_graph[1] = HeaderLR
        /\ \A i \in 2..Len(call_graph) :
               \E k \in DOMAIN naive.calls :
                   naive.calls[k].caller # <<>> /\ EdgeLineOf(call_graph[i], naive.calls[k])
        /\ (\A k \in DOMAIN naive.calls : naive.calls[k].caller = <<>>)
               => call_graph = <<HeaderLR>>
        /\ src_language \in JsLanguages =>
               /\ \A k \in DOMAIN naive.calls : naive.calls[k].caller = <<>>
               /\ call_graph = <<HeaderLR>>

\* the record of a JS file with two calls, drawn: the header alone
C26_JsCallsNotDrawn ==
    /\ Drawn /\ src_language = "javascript"
    /\ Len(naive.calls) >= 2 /\ call_graph = <<HeaderLR>>

\* C28: in every record of the Python heuristic the caller of each CallEdge is
\* empty or a name of the record's function list whose header stands on a line
\* before the call's line, and the callee is never one of the excluded keywords
\* or builtins.
C28_CallerDeclaredCalleeKept ==
    Extracted =>
        \A k \in DOMAIN naive.calls :
            LET c == naive.calls[k]
            IN  /\ \/ c.caller = <<>>
                   \/ /\ c.caller \in Range(naive.functions)
                      /\ \E h \in 1..(c.line - 1) :
                             IsFuncHeader(h) /\ FuncDefMatch(src_lines[h]).name = c.caller
                /\ c.callee \notin _PY_KEYWORDS
                /\ c.callee \notin _BUILTIN_FUNCS

\* `def a():` then `  c(len(x))` then ` if (d ()):`: the calls of c and d are
\* recorded with caller a, len and if are not recorded
C28_BuiltinAndKeywordSkipped ==
    /\ Extracted
    /\ src_lines = <<l_def_a, l_call_in, l_if>>
    /\ naive.calls = << [caller |-> <<"a">>, callee |-> <<"c">>, line |-> 2],
                        [caller |-> <<"a">>, callee |-> <<"d">>, line |-> 3] >>

----------------------------------------------------------------------------
(* Properties of CacheManager (SpecCache)                                  *)

\* what the claim gives get for a key: the data of the most recent successful set
\* of the key when that set is less than ttl_seconds old and neither an invalidate
\* of the key nor a clear_all came after it, None otherwise
ClaimedGet(key) ==
    IF last_good[key] # NoSet /\ clock - last_good[key].at < TtlSeconds
    THEN last_good[key].data
    ELSE NoData

\* C29: after any sequence of set, invalidate, clear_all and clear_expired and
\* any passage of time, get returns the data of the most recent successful set
\* for the same key if that set happened less than ttl_seconds ago and no
\* invalidate of the key or clear happened since, and None in every other case;
\* operations on one key never change what get returns for another key.
C29_GetReturnsLastGoodSet ==
    got # NoGet => got.data = ClaimedGet(got.key)

----------------------------------------------------------------------------
(* Properties of clone_or_open_repo (SpecRepo)                             *)

\* C30: whenever clone_or_open_repo raises for a remote URL, on the git CLI path
\* or on the GitPython fallback path, the cache target directory of the URL does
\* not exist afterwards, so that the next call for the URL clones again instead
\* of returning a partial directory as a cloned repository.
C30_NoTargetAfterFailure ==
    /\ (repo_call # NoCall /\ repo_call.url = "remote" /\ repo_call.status = "raised")
           => target_dir = "absent"
    /\ (repo_call # NoCall /\ repo_call.url = "remote" /\ repo_call.status = "returned")
           => target_dir = "cloned"

----------------------------------------------------------------------------
(* The specifications: each drives one part and leaves the others quiet    *)

IdInit == InitId /\ RenderQuiet /\ ExtractQuiet /\ NameQuiet /\ ScanQuiet /\ HeuristicQuiet /\ CacheQuiet /\ RepoQuiet
SpecId == IdInit /\ [][NextId]_vars

RenderInit == InitRender /\ IdQuiet /\ ExtractQuiet /\ NameQuiet /\ ScanQuiet /\ HeuristicQuiet /\ CacheQuiet /\ RepoQuiet
SpecRender == RenderInit /\ [][NextRender]_vars

ExtractInit == InitExtract /\ IdQuiet /\ RenderQuiet /\ NameQuiet /\ ScanQuiet /\ HeuristicQuiet /\ CacheQuiet /\ RepoQuiet
SpecExtract == ExtractInit /\ [][NextExtract]_vars

NameInit == InitName /\ IdQuiet /\ RenderQuiet /\ ExtractQuiet /\ ScanQuiet /\ HeuristicQuiet /\ CacheQuiet /\ RepoQuiet
SpecModuleName == NameInit /\ [][NextName]_vars

ScanInit == InitScan /\ IdQuiet /\ RenderQuiet /\ ExtractQuiet /\ NameQuiet /\ HeuristicQuiet /\ CacheQuiet /\ RepoQuiet
SpecScan == ScanInit /\ [][NextScan]_vars

HeuristicInit == InitHeuristic /\ IdQuiet /\ RenderQuiet /\ ExtractQuiet /\ NameQuiet /\ ScanQuiet /\ CacheQuiet /\ RepoQuiet
SpecHeuristic == HeuristicInit /\ [][NextHeuristic]_vars

CacheInit == InitCache /\ IdQuiet /\ RenderQuiet /\ ExtractQuiet /\ NameQuiet /\ ScanQuiet /\ HeuristicQuiet /\ RepoQuiet
SpecCache == CacheInit /\ [][NextCache]_vars

RepoInit == InitRepo /\ IdQuiet /\ RenderQuiet /\ ExtractQuiet /\ NameQuiet /\ ScanQuiet /\ HeuristicQuiet /\ CacheQuiet
SpecRepo == RepoInit /\ [][NextRepo]_vars

====
